---- MODULE Spec2Model ----
(***************************************************************************)
(* Generation orchestration and coverage core of dataset_generator:       *)
(*   variation_router.generate_variations / _select_variation_axes        *)
(*   orchestrator.orchestrate_generation (three generation tiers)         *)
(*   fallback.generate_with_openai_fallback                               *)
(*   coverage.enforce_coverage                                            *)
(*                                                                         *)
(* Python values are represented as follows: a dict is a function from    *)
(* its keys, a list is a sequence, None is the string "None", the         *)
(* booleans True/False of the axis tables are the strings "True" and      *)
(* "False" (an axis domain never mixes booleans with strings).            *)
(***************************************************************************)
EXTENDS Integers, Sequences, FiniteSets, TLC

VARIABLES
    pc,                  \* position of the running function
    case,                \* argument case
    min_test_cases,      \* argument min_test_cases
    pairwise_combinations, \* generate_variations: local list being built
    variations,          \* list returned by generate_variations
    formats,             \* orchestrate_generation: argument/local formats
    fi,                  \* position of "for format_name in formats"
    idx,                 \* position of "for idx, params in enumerate(variations)"
    test_cases,          \* orchestrate_generation: local list test_cases
    dataset_examples,    \* orchestrate_generation: local list dataset_examples
    tool_calls,          \* tool invocations selected by the routing call
    ti,                  \* position of "for tool_call in tool_calls"
    policy_doc,          \* the temporary policy document
    env,                 \* behaviour of the external services in this run
    call,                \* arguments of a function that is checked on its own
    frameworks_used,     \* generator names run_pipeline has collected
    result,              \* what the function under check returned
    warnings,            \* the warnings enforce_coverage has collected
    history              \* external calls made so far, in order

routerVars == <<case, min_test_cases, pairwise_combinations, variations>>

\* variables of run_pipeline and of the functions checked on their own
auxVars == <<call, frameworks_used, result, warnings>>

orchVars == <<formats, fi, idx, test_cases, dataset_examples, tool_calls, ti,
              policy_doc, env, auxVars, history>>

vars == <<pc, routerVars, orchVars>>

None == "None"

(***************************************************************************)
(* Bounds of the model.                                                    *)
(***************************************************************************)
\* random padding draws explored beyond the pairwise list
MaxPad == 1

\* largest min_test_cases given to orchestrate_generation
MaxMinTestCases == 3

\* generate_example failures in a run whose adapters fail only now and then
MaxAdapterFailures == 1

\* tool invocations the routing call selects at most
MaxToolCalls == 2

\* rows one external engine returns at most
MaxRows == 2

\* entries of each list in a reply of the last-resort generator's model call
MaxFallbackItems == 2

(***************************************************************************)
(* variation_router.py                                                     *)
(***************************************************************************)
KnownCases == {"support_bot", "operator_quality", "doctor_booking"}

\* an identifier that is not a key of VARIATION_AXES
UnknownCase == "unknown_case"

Cases == KnownCases \cup {UnknownCase}

SupportBotAxes ==
    << <<"tone", <<"neutral", "negative", "aggressive">> >>,
       <<"has_order_id", <<"True", "False">> >>,
       <<"requires_account_access", <<"True", "False">> >>,
       <<"language", <<"ru", "en">> >>,
       <<"adversarial", <<"none", "profanity", "injection", "garbage">> >> >>

OperatorQualityAxes ==
    << <<"phrase_length", <<"short", "medium", "long">> >>,
       <<"punctuation_errors", <<"none", "minor", "severe">> >>,
       <<"slang_profanity_emoji", <<"none", "moderate", "excessive">> >>,
       <<"medical_terms", <<"none", "present">> >>,
       <<"user_aggression", <<"neutral", "frustrated", "angry">> >>,
       <<"escalation_needed", <<"no", "yes">> >> >>

\* VARIATION_AXES.get(case), with the fallback to the support_bot table
\* for an unknown case (lines 65-70); an ordered dict is a sequence of
\* <<axis name, value list>>.
VARIATION_AXES(c) ==
    CASE c = "support_bot" -> SupportBotAxes
      [] c = "operator_quality" -> OperatorQualityAxes
      [] c = "doctor_booking" -> SupportBotAxes
      [] OTHER -> SupportBotAxes

SeqToSet(s) == {s[i] : i \in 1..Len(s)}

Contains(s, x) == \E i \in 1..Len(s) : s[i] = x

axis_names(axes) == [i \in 1..Len(axes) |-> axes[i][1]]

axis_values(axes) == [i \in 1..Len(axes) |-> axes[i][2]]

\* number of combinations of the axes after the k-th
RECURSIVE Stride(_, _)
Stride(vals, k) ==
    IF k >= Len(vals) THEN 1 ELSE Len(vals[k + 1]) * Stride(vals, k + 1)

\* the n-th full combination of one value per axis, in lexicographic order
Row(vals, n) ==
    [k \in 1..Len(vals) |->
        vals[k][(((n - 1) \div Stride(vals, k)) % Len(vals[k])) + 1]]

\* every full combination of one value per axis, in lexicographic order
Product(vals) == [n \in 1..Stride(vals, 0) |-> Row(vals, n)]

IndexPairs(n) == {p \in (1..n) \X (1..n) : p[1] < p[2]}

\* the value pairs one combination covers
PairsOf(row) == {<<p[1], p[2], row[p[1]], row[p[2]]>> : p \in IndexPairs(Len(row))}

\* every pair of values of every two distinct axes
AllValuePairs(vals) ==
    UNION {{<<p[1], p[2], vals[p[1]][a], vals[p[2]][b]>> :
                a \in 1..Len(vals[p[1]]), b \in 1..Len(vals[p[2]])} :
            p \in IndexPairs(Len(vals))}

Gain(row, uncovered) == Cardinality(PairsOf(row) \cap uncovered)

Max(S) == CHOOSE m \in S : \A n \in S : n <= m

Min(S) == CHOOSE m \in S : \A n \in S : m <= n

\* first combination (in lexicographic order) that covers the most pairs
\* still uncovered
BestRow(rows, uncovered) ==
    LET top == Max({Gain(rows[i], uncovered) : i \in 1..Len(rows)})
    IN rows[Min({i \in 1..Len(rows) : Gain(rows[i], uncovered) = top})]

RECURSIVE Cover(_, _, _)
Cover(rows, uncovered, acc) ==
    IF uncovered = {} THEN acc
    ELSE LET r == BestRow(rows, uncovered)
         IN Cover(rows, uncovered \ PairsOf(r), Append(acc, r))

\* AllPairs(axis_values) of the allpairspy library, as the repository uses
\* it (no filter, pair strength 2): the library yields full combinations,
\* the first one made of the first value of every axis, until every value
\* pair of every two axes is covered.  Modelled by a greedy covering array.
AllPairs(vals) == Cover(Product(vals), AllValuePairs(vals), <<>>)

\* lines 81-83: axis names combined with the values of one combination
ParamDict(names, combination) ==
    [k \in SeqToSet(names) |->
        combination[CHOOSE i \in 1..Len(names) : names[i] = k]]

\* as PairwiseCombinations, but the last combination the library yields is lost
PairwiseCombinations_DropLast(c) ==
    LET axes == VARIATION_AXES(c)
        combos == AllPairs(axis_values(axes))
    IN [n \in 1..(Len(combos) - 1) |-> ParamDict(axis_names(axes), combos[n])]

\* lines 74-84
PairwiseCombinations(c) ==
    LET axes == VARIATION_AXES(c)
        combos == AllPairs(axis_values(axes))
    IN [n \in 1..Len(combos) |-> ParamDict(axis_names(axes), combos[n])]

\* the draws of random.choice over every axis (line 99-101)
RandomCombos(c) ==
    LET axes == VARIATION_AXES(c)
        rows == Product(axis_values(axes))
    IN {ParamDict(axis_names(axes), rows[n]) : n \in 1..Len(rows)}

\* default/neutral value per axis (lines 135-147)
defaults ==
    [tone |-> "neutral", has_order_id |-> "True",
     requires_account_access |-> "False", language |-> "ru",
     adversarial |-> "none", phrase_length |-> "medium",
     punctuation_errors |-> "none", slang_profanity_emoji |-> "none",
     medical_terms |-> "none", user_aggression |-> "neutral",
     escalation_needed |-> "no"]

\* priority order for significance (lines 176-184)
priority ==
    <<"adversarial", "escalation_needed", "user_aggression", "tone",
      "punctuation_errors", "slang_profanity_emoji", "requires_account_access">>

\* the keys of a parameter dict in insertion order: the axis order of the
\* table the dict was built from
KeysInOrder(parameters, c) ==
    LET InDict(k) == k \in DOMAIN parameters
    IN SelectSeq(axis_names(VARIATION_AXES(c)), InDict)

\* lines 167-171: append the padding axes until two axes are selected
RECURSIVE PadAxes(_, _, _)
PadAxes(selected, default_axes, parameters) ==
    IF default_axes = <<>> THEN selected
    ELSE LET axis == Head(default_axes)
         IN IF ~Contains(selected, axis) /\ axis \in DOMAIN parameters
            THEN IF Len(selected) + 1 >= 2
                 THEN Append(selected, axis)
                 ELSE PadAxes(Append(selected, axis), Tail(default_axes), parameters)
            ELSE PadAxes(selected, Tail(default_axes), parameters)

FirstN(s, n) == SubSeq(s, 1, IF Len(s) < n THEN Len(s) ELSE n)

_select_variation_axes(parameters, c) ==
    LET NonDefault(k) == k \in DOMAIN defaults /\ parameters[k] # defaults[k]
        non_default_axes == SelectSeq(KeysInOrder(parameters, c), NonDefault)
        default_axes == IF c = "support_bot"
                        THEN <<"tone", "adversarial">>
                        ELSE <<"punctuation_errors", "user_aggression">>
        padded == IF Len(non_default_axes) < 2
                  THEN PadAxes(non_default_axes, default_axes, parameters)
                  ELSE non_default_axes
        InPadded(p) == Contains(padded, p)
        NotInPriority(a) == ~Contains(priority, a)
        sorted_axes == SelectSeq(priority, InPadded) \o SelectSeq(padded, NotInPriority)
    IN IF Len(non_default_axes) >= 2 /\ Len(non_default_axes) <= 3
       THEN non_default_axes
       ELSE IF Len(padded) > 3 THEN FirstN(FirstN(sorted_axes, 3), 3)
            ELSE FirstN(padded, 3)

\* lines 114-116: the combination with its axis list under "_variation_axes"
Enrich(param_dict, c) ==
    [k \in DOMAIN param_dict \cup {"_variation_axes"} |->
        IF k = "_variation_axes" THEN _select_variation_axes(param_dict, c)
        ELSE param_dict[k]]

\* lines 108-116
EnrichAll(combos, c) == [n \in 1..Len(combos) |-> Enrich(combos[n], c)]

\* the axis-to-value assignment of a variation
AxisValuesOf(v) == [k \in DOMAIN v \ {"_variation_axes"} |-> v[k]]

(***************************************************************************)
(* generate_variations as a state machine: the pairwise step, the random   *)
(* padding loop, the annotation of every combination.                      *)
(***************************************************************************)
\* requested minimum counts: the documented ones and those that need padding
MinTestCasesInputs(c) ==
    LET n == Len(PairwiseCombinations(c))
    IN {1, 3, 10} \cup ((n + 1)..(n + MaxPad))

\* [p.id for p in policies]
PolicyIds == << <<"pol_", "001">> >>

\* a list of policy ids that carries the prefix and names no policy
UnknownPolicyIds == << <<"pol_", "999">> >>

\* the fixed placeholder id "pol_unknown"
PolUnknown == <<"pol_", "unknown">>

\* no external service is consulted
IdleEnv ==
    [adapters |-> "up", desc_has_faq |-> FALSE, classifier |-> "tickets",
     relevant_policy_ids |-> PolicyIds]

\* the temporary policy document: the file at temp_path and the descriptor
\* fd of tempfile.mkstemp (orchestrator.py line 293); before the call
\* neither exists
NoPolicyDoc == [file |-> "none", fd |-> "none"]

\* line 293: mkstemp creates the file and returns it opened
mkstemp == [file |-> "exists", fd |-> "open"]

OrchIdle ==
    /\ formats = None
    /\ fi = 0
    /\ idx = 0
    /\ test_cases = <<>>
    /\ dataset_examples = <<>>
    /\ tool_calls = <<>>
    /\ ti = 0
    /\ policy_doc = NoPolicyDoc
    /\ env = IdleEnv
    /\ call = None
    /\ frameworks_used = {}
    /\ result = None
    /\ warnings = <<>>
    /\ history = <<>>

InitRouter ==
    /\ pc = "gv_start"
    /\ case \in Cases
    /\ min_test_cases \in MinTestCasesInputs(case)
    /\ pairwise_combinations = <<>>
    /\ variations = <<>>
    /\ OrchIdle

\* lines 62-88
GV_Pairwise ==
    /\ pc = "gv_start"
    /\ pairwise_combinations' = PairwiseCombinations(case)
    /\ pc' = "gv_pad"
    /\ UNCHANGED <<case, min_test_cases, variations, orchVars>>

\* as PadStep, without the duplicate check of line 103
PadStep_NoDuplicateCheck(combos, random_combo) == Append(combos, random_combo)

\* lines 98-104: one iteration of the padding loop
PadStep(combos, random_combo) ==
    IF ~Contains(combos, random_combo) THEN Append(combos, random_combo) ELSE combos

GV_Pad ==
    /\ pc = "gv_pad"
    /\ Len(pairwise_combinations) < min_test_cases
    /\ \E random_combo \in RandomCombos(case) :
          pairwise_combinations' = PadStep(pairwise_combinations, random_combo)
    /\ UNCHANGED <<pc, case, min_test_cases, variations, orchVars>>

\* lines 106-121
GV_Return ==
    /\ pc = "gv_pad"
    /\ Len(pairwise_combinations) >= min_test_cases
    /\ variations' = EnrichAll(pairwise_combinations, case)
    /\ pc' = "gv_returned"
    /\ UNCHANGED <<case, min_test_cases, pairwise_combinations, orchVars>>

NextRouter == GV_Pairwise \/ GV_Pad \/ GV_Return

SpecRouter == InitRouter /\ [][NextRouter]_vars

(***************************************************************************)
(* Properties of generate_variations (checked under SpecRouter).           *)
(***************************************************************************)
\* C7: every variation generate_variations returns, for every case
\* (an unknown one included), carries a dominant-axis list
\* ("_variation_axes") of length exactly 2 or 3.
C7_DominantAxesTwoOrThree ==
    pc = "gv_returned" =>
        \A i \in 1..Len(variations) :
            Len(variations[i]["_variation_axes"]) \in {2, 3}

\* C8: when generate_variations has returned, for every two distinct axes of
\* the case's axis table and every pair of values of their domains, some
\* returned variation holds exactly that pair of values.
C8_PairwiseCoverage ==
    pc = "gv_returned" =>
        LET axes == VARIATION_AXES(case)
        IN \A p \in IndexPairs(Len(axes)) :
             \A a \in SeqToSet(axes[p[1]][2]), b \in SeqToSet(axes[p[2]][2]) :
                \E i \in 1..Len(variations) :
                    /\ variations[i][axes[p[1]][1]] = a
                    /\ variations[i][axes[p[2]][1]] = b

\* the concrete pair of the support_bot table: tone=aggressive with
\* adversarial=injection is returned
C8_Witness ==
    /\ pc = "gv_returned"
    /\ case = "support_bot"
    /\ \E i \in 1..Len(variations) :
          variations[i]["tone"] = "aggressive" /\ variations[i]["adversarial"] = "injection"

\* C9: when generate_variations has returned, the list has at least
\* min_test_cases entries and no two entries have the same axis-to-value
\* assignment.
C9_MinimumDistinct ==
    pc = "gv_returned" =>
        /\ Len(variations) >= min_test_cases
        /\ \A i, j \in 1..Len(variations) :
              i # j => AxisValuesOf(variations[i]) # AxisValuesOf(variations[j])

\* a return after the pairwise step alone fell short and padding was used
C9_Witness ==
    /\ pc = "gv_returned"
    /\ Len(PairwiseCombinations(case)) < min_test_cases
    /\ Len(variations) = min_test_cases

(***************************************************************************)
(* models/test_case.py                                                     *)
(*                                                                         *)
(* An id string is the tuple of the pieces it is formatted from:           *)
(* f"tc_{suffix}_{format_name}_{idx:03d}" is <<"tc_", suffix, format, idx>>*)
(* and f"tc_{suffix}{i:03d}" is <<"tc_", suffix, "", i>>.                  *)
(***************************************************************************)
\* the use case under generation, use_case.id = "uc_001"
UseCaseId == <<"uc_", "001">>

\* use_case.id.replace('uc_', '')
UcSuffix == UseCaseId[2]

StartsWith(id, prefix) == Len(id) >= 1 /\ id[1] = prefix

\* as TestCaseRaises, without the validator of parameter_variation_axes
TestCaseRaises_NoAxesCheck(tc) ==
    \/ ~StartsWith(tc.id, "tc_")
    \/ ~StartsWith(tc.use_case_id, "uc_")
    \/ \E i \in 1..Len(tc.policy_ids) : ~StartsWith(tc.policy_ids[i], "pol_")

\* TestCase(...) raises a validation error (field validators, lines 40-77)
TestCaseRaises(tc) ==
    \/ ~StartsWith(tc.id, "tc_")
    \/ ~StartsWith(tc.use_case_id, "uc_")
    \/ ~(2 <= Len(tc.parameter_variation_axes) /\ Len(tc.parameter_variation_axes) <= 3)
    \/ \E i \in 1..Len(tc.policy_ids) : ~StartsWith(tc.policy_ids[i], "pol_")

\* as DatasetExampleRaises, without the minimum of one policy id
DatasetExampleRaises_NoMinPolicyIds(ex) ==
    \/ ~StartsWith(ex.id, "ex_")
    \/ ~StartsWith(ex.use_case_id, "uc_")
    \/ ~StartsWith(ex.test_case_id, "tc_")
    \/ Len(ex.evaluation_criteria) < 3
    \/ \E i \in 1..Len(ex.policy_ids) : ~StartsWith(ex.policy_ids[i], "pol_")

\* DatasetExample(...) raises a validation error (models/dataset_example.py
\* field validators, lines 81-132); the input is validated by InputData
DatasetExampleRaises(ex) ==
    \/ ~StartsWith(ex.id, "ex_")
    \/ ~StartsWith(ex.use_case_id, "uc_")
    \/ ~StartsWith(ex.test_case_id, "tc_")
    \/ Len(ex.evaluation_criteria) < 3
    \/ Len(ex.policy_ids) < 1
    \/ \E i \in 1..Len(ex.policy_ids) : ~StartsWith(ex.policy_ids[i], "pol_")

(***************************************************************************)
(* generation/format_adapters/__init__.py                                  *)
(***************************************************************************)
\* keys of the adapters table of get_adapter_for_format (lines 39-43)
AdapterFormats ==
    {"single_turn_qa", "single_utterance_correction", "dialog_last_turn_correction"}

\* get_adapter_for_format raises ValueError (lines 45-48)
GetAdapterRaises(format_name) == format_name \notin AdapterFormats

(***************************************************************************)
(* generation/source_classifier.py                                         *)
(***************************************************************************)
\* Literal of SourceClassification.source (lines 14-16)
SourceTypes == {"tickets", "faq_paraphrase", "corner"}

\* parameters.get("adversarial")
AdversarialOf(parameters) ==
    IF "adversarial" \in DOMAIN parameters THEN parameters["adversarial"] ELSE None

\* lines 60-73: the source the heuristics decide on, None when they do not
HeuristicSource(desc_has_faq, parameters) ==
    LET adversarial == AdversarialOf(parameters)
    IN IF adversarial \in {"profanity", "injection", "garbage"} THEN "corner"
       ELSE IF desc_has_faq /\ (adversarial \in {None, ""} \/ adversarial = "none")
            THEN "faq_paraphrase"
       ELSE None

\* as ClassifierFailed, for a handler that catches the API error only
ClassifierFailed_ApiErrorOnly(llm) == llm = "error"

\* lines 84-131: the try block raises; llm is what the classifier call
\* yields: a source type, "error" when the call raises, "refusal" when
\* parsed is None (line 124 raises), "invalid" when the reply breaks the
\* Literal
ClassifierFailed(llm) == llm \notin SourceTypes

\* classify_source_type (lines 22-131)
classify_source_type(desc_has_faq, parameters, llm) ==
    IF HeuristicSource(desc_has_faq, parameters) # None
    THEN HeuristicSource(desc_has_faq, parameters)
    ELSE IF ClassifierFailed(llm) THEN "tickets"
    ELSE llm

\* the calls of classify_source_type: parameters without the key
\* "adversarial" and with each value of the axis (variation_router.py
\* line 16)
ClassifierParameters ==
    {<<>>} \cup {[k \in {"adversarial"} |-> v] :
                    v \in {"none", "profanity", "injection", "garbage"}}
    \cup {[k \in {"tone", "adversarial"} |->
                IF k = "tone" THEN "negative" ELSE v] :
                    v \in {"none", "profanity", "injection", "garbage"}}

ClassifierCalls ==
    [desc_has_faq : BOOLEAN,
     parameters : ClassifierParameters,
     llm : SourceTypes \cup {"error", "refusal", "invalid"}]

(***************************************************************************)
(* generation/orchestrator.py: orchestrate_generation                      *)
(***************************************************************************)
\* formats arguments: None (default by case), an empty list, a name with
\* no adapter, and lists that mix both kinds
FormatsInputs ==
    {None, <<>>, <<"bogus_format">>,
     <<"bogus_format", "single_turn_qa">>,
     <<"dialog_last_turn_correction", "bogus_format">>}

\* lines 84-88
DefaultFormats(c, f) ==
    IF f = None
    THEN IF c = "operator_quality"
         THEN <<"single_utterance_correction", "dialog_last_turn_correction">>
         ELSE <<"single_turn_qa">>
    ELSE f

\* some requested format has an adapter, so that generate_example is called
UsesAdapters(c, f) ==
    \E i \in 1..Len(DefaultFormats(c, f)) : ~GetAdapterRaises(DefaultFormats(c, f)[i])

\* the external services of one run: the format adapters' generation call
\* is up (at most MaxAdapterFailures calls fail) or down (every call
\* fails); the use-case description holds an FAQ keyword or not; what the
\* source classifier's model call answers; the relevant_policy_ids the
\* adapters' model call names (policies of the run, or an id of no policy).
\* A service the run never consults (no adapter, no successful call, or a
\* case without source classification) is left at one value.
Environments(c, f) ==
    {e \in [adapters : {"up", "down"},
            desc_has_faq : BOOLEAN,
            classifier : {"tickets", "faq_paraphrase", "corner", "error"},
            relevant_policy_ids : {PolicyIds, UnknownPolicyIds}] :
        /\ ~UsesAdapters(c, f) => e.adapters = "up"
        /\ (e.adapters = "down" \/ ~UsesAdapters(c, f)) =>
              e.relevant_policy_ids = PolicyIds
        /\ (e.adapters = "down" \/ ~UsesAdapters(c, f) \/ c # "support_bot") =>
              (~e.desc_has_faq /\ e.classifier = "tickets")}

Init ==
    /\ pc = "start"
    /\ case \in Cases
    /\ min_test_cases \in 1..MaxMinTestCases
    /\ pairwise_combinations = <<>>
    /\ variations = <<>>
    /\ formats \in FormatsInputs
    /\ ~UsesAdapters(case, formats) => case = "support_bot"
    /\ fi = 0
    /\ idx = 0
    /\ test_cases = <<>>
    /\ dataset_examples = <<>>
    /\ tool_calls = <<>>
    /\ ti = 0
    /\ policy_doc = NoPolicyDoc
    /\ env \in Environments(case, formats)
    /\ call = None
    /\ frameworks_used = {}
    /\ result = None
    /\ warnings = <<>>
    /\ history = <<>>

\* the padding loop of generate_variations run on a given sequence of draws
RECURSIVE Pad(_, _, _)
Pad(combos, draws, m) ==
    IF Len(combos) >= m \/ draws = <<>> THEN combos
    ELSE Pad(PadStep(combos, Head(draws)), Tail(draws), m)

\* draws that take the padding loop to its exit
PaddingDraws(c, m) ==
    LET n == Len(PairwiseCombinations(c))
    IN IF n >= m THEN {<<>>}
       ELSE {d \in [1..(m - n) -> RandomCombos(c)] :
               Len(Pad(PairwiseCombinations(c), d, m)) >= m}

\* generate_variations as one call (variation_router.py lines 62-121)
generate_variations(c, m, draws) ==
    EnrichAll(Pad(PairwiseCombinations(c), draws, m), c)

Event(op, name, n, outcome) == <<op, name, n, outcome>>

\* lines 81-119: default formats, then the variations; an exception of the
\* variation step is caught at line 203
Start ==
    /\ pc = "start"
    /\ formats' = DefaultFormats(case, formats)
    /\ \/ /\ \E draws \in PaddingDraws(case, min_test_cases) :
               /\ pairwise_combinations' = Pad(PairwiseCombinations(case), draws, min_test_cases)
               /\ variations' = generate_variations(case, min_test_cases, draws)
          /\ fi' = 1
          /\ pc' = "formats"
       \/ /\ UNCHANGED <<pairwise_combinations, variations, fi>>
          /\ pc' = "fallback_only"
    /\ UNCHANGED <<case, min_test_cases, idx, test_cases,
                   dataset_examples, tool_calls, ti, policy_doc, env, auxVars, history>>

\* lines 122-127 and 197-199: a format name without an adapter is skipped
GetAdapterFails ==
    /\ pc = "formats"
    /\ fi <= Len(formats)
    /\ GetAdapterRaises(formats[fi])
    /\ fi' = fi + 1
    /\ UNCHANGED <<pc, routerVars, formats, idx, test_cases, dataset_examples,
                   tool_calls, ti, policy_doc, env, auxVars, history>>

\* lines 122-130: the adapter is found, its loop over the variations starts
GetAdapter ==
    /\ pc = "formats"
    /\ fi <= Len(formats)
    /\ ~GetAdapterRaises(formats[fi])
    /\ idx' = 1
    /\ pc' = "variations"
    /\ UNCHANGED <<routerVars, formats, fi, test_cases, dataset_examples,
                   tool_calls, ti, policy_doc, env, auxVars, history>>

\* params.pop("_variation_axes", []) (line 133): the value, and the dict left
PopAxes(params) ==
    IF "_variation_axes" \in DOMAIN params THEN params["_variation_axes"] ELSE <<>>

PopRest(params) == [k \in DOMAIN params \ {"_variation_axes"} |-> params[k]]

\* line 145
TestCaseAxes(variation_axes) ==
    IF Len(variation_axes) >= 2 THEN FirstN(variation_axes, 3)
    ELSE variation_axes \o FirstN(<<"default", "default">>, 3 - Len(variation_axes))

\* line 136
AdapterTcId(format_name, i) == <<"tc_", UcSuffix, format_name, i>>

\* lines 139-149; tier is not a field of the class: it records which
\* generation path constructed the object
MintTestCase(format_name, i, params) ==
    [id |-> AdapterTcId(format_name, i),
     use_case_id |-> UseCaseId,
     parameter_variation_axes |-> TestCaseAxes(PopAxes(params)),
     parameters |-> PopRest(params),
     policy_ids |-> PolicyIds,
     generator |-> "format_adapter",
     tier |-> "adapter"]

\* input of the example an adapter builds: the roles of its messages and
\* target_message_index, absent (<<>>) or <<index>>
AdapterInput(format_name) ==
    CASE format_name = "single_turn_qa" ->
            [messages |-> <<"user">>, target_message_index |-> <<>>]
      [] format_name = "single_utterance_correction" ->
            [messages |-> <<"operator">>, target_message_index |-> <<0>>]
      [] OTHER ->
            [messages |-> <<"user", "operator">>, target_message_index |-> <<1>>]

\* metadata["generator"] the adapter of a format writes on its examples
AdapterGenerator(format_name) ==
    CASE format_name = "single_turn_qa" -> "single_turn_qa_adapter"
      [] format_name = "single_utterance_correction" -> "single_utterance_correction_adapter"
      [] OTHER -> "dialog_last_turn_correction_adapter"

\* the DatasetExample a format adapter returns, after lines 164-183
AdapterExample(format_name, i, params) ==
    [id |-> <<"ex_", UcSuffix, format_name, i>>,
     use_case_id |-> UseCaseId,
     test_case_id |-> AdapterTcId(format_name, i),
     format |-> format_name,
     input |-> AdapterInput(format_name),
     evaluation_criteria |-> <<"relevance", "policy_compliance", "tone">>,
     policy_ids |-> env.relevant_policy_ids,
     generator |-> AdapterGenerator(format_name),
     source |-> IF case = "support_bot"
                THEN classify_source_type(env.desc_has_faq, PopRest(params), env.classifier)
                ELSE None,
     tier |-> "adapter"]

AdapterFailures ==
    Cardinality({k \in 1..Len(history) :
                    history[k][1] = "generate_example" /\ history[k][4] # "ok"})

\* how generate_example fails: the model call raises; or, while the
\* service is up, the reply breaks the schema and DatasetExample(...) raises
ExampleFailures ==
    IF env.adapters = "down" THEN {"raised"} ELSE {"raised", "ValidationError"}

\* the generation call of an adapter may fail now
MayFail == env.adapters = "down" \/ AdapterFailures < MaxAdapterFailures

MaySucceed == env.adapters = "up"

\* as AfterExampleFailure, with "break" in the place of "continue"
AfterExampleFailure_Break(i, n) == n + 1

\* lines 193-195: after a failed example the loop continues with the next
\* of the n variations
AfterExampleFailure(i, n) == i + 1

\* lines 130-195: one iteration of the loop over the variations
DispatchVariation ==
    /\ pc = "variations"
    /\ idx <= Len(variations)
    /\ LET format_name == formats[fi]
           params == variations[idx]
           tc == MintTestCase(format_name, idx, params)
       IN /\ variations' = [variations EXCEPT ![idx] = PopRest(params)]
          /\ IF TestCaseRaises(tc)
             THEN /\ UNCHANGED <<test_cases, dataset_examples, history>>
                  /\ idx' = AfterExampleFailure(idx, Len(variations))
             ELSE /\ test_cases' = Append(test_cases, tc)
                  /\ \/ /\ MaySucceed
                        /\ ~DatasetExampleRaises(AdapterExample(format_name, idx, params))
                        /\ dataset_examples' =
                              Append(dataset_examples, AdapterExample(format_name, idx, params))
                        /\ history' = Append(history,
                              Event("generate_example", format_name, idx, "ok"))
                        /\ idx' = idx + 1
                     \/ /\ MayFail
                        /\ dataset_examples' = dataset_examples
                        /\ \E outcome \in ExampleFailures :
                              history' = Append(history,
                                 Event("generate_example", format_name, idx, outcome))
                        /\ idx' = AfterExampleFailure(idx, Len(variations))
    /\ UNCHANGED <<pc, case, min_test_cases, pairwise_combinations, formats, fi,
                   tool_calls, ti, policy_doc, env, auxVars>>

\* the loop over the variations is exhausted: next format
NextFormat ==
    /\ pc = "variations"
    /\ idx > Len(variations)
    /\ fi' = fi + 1
    /\ pc' = "formats"
    /\ UNCHANGED <<routerVars, formats, idx, test_cases, dataset_examples,
                   tool_calls, ti, policy_doc, env, auxVars, history>>

\* as NeedsSupplement, entering the supplementary pass unconditionally
NeedsSupplement_Always(tcs, m) == TRUE

\* line 210
NeedsSupplement(tcs, m) == Len(tcs) < m

\* line 201, then the check of line 210
SupplementCheck ==
    /\ pc = "formats"
    /\ fi > Len(formats)
    /\ pc' = IF NeedsSupplement(test_cases, min_test_cases) THEN "routing" ELSE "final_check"
    /\ UNCHANGED <<routerVars, orchVars>>

(***************************************************************************)
(* orchestrate_generation, step 3: the supplementary pass over the         *)
(* external synthesis engines (lines 209-260).                             *)
(***************************************************************************)
\* function names a tool call can carry: the three tools of
\* _build_tool_definitions and a name that is none of them
ToolNames ==
    {"generate_with_deepeval", "generate_with_ragas", "generate_with_giskard",
     "other_tool"}

SeqsUpTo(S, n) == UNION {[1..k -> S] : k \in 0..n}

\* response.choices[0].message.tool_calls of the routing call
ToolCallLists == SeqsUpTo(ToolNames, MaxToolCalls)

\* adapt_deepeval_golden_to_test_case / _to_example on the i-th golden
\* (orchestrator.py lines 467-474)
BackendTestCase(name, i) ==
    [id |-> <<"tc_", UcSuffix, "", i>>,
     use_case_id |-> UseCaseId,
     parameter_variation_axes |-> <<"tone", "complexity", "policy_boundary">>,
     parameters |-> <<>>,
     policy_ids |-> <<>>,
     generator |-> name,
     tier |-> "backend"]

BackendExample(name, i) ==
    [id |-> <<"ex_", UcSuffix, "", i>>,
     use_case_id |-> UseCaseId,
     test_case_id |-> <<"tc_", UcSuffix, "", i>>,
     format |-> "single_turn_qa",
     input |-> [messages |-> <<"user">>, target_message_index |-> <<>>],
     evaluation_criteria |-> <<"relevance_to_query", "policy_compliance",
                               "response_completeness", "answer_accuracy">>,
     policy_ids |-> PolicyIds,
     generator |-> name,
     source |-> None,
     tier |-> "backend"]

\* the engine raises
EngineRaised == -1

\* what one _invoke_* call returns or that it raises, given what the engine
\* does: engine = EngineRaised, or the number of records it returns
\*   _invoke_deepeval (lines 440-476): one TestCase and one example per golden
\*   _invoke_ragas (lines 479-514): generate_with_ragas returns a pandas
\*     DataFrame (ragas_gen.py lines 105-108), on which line 505 calls
\*     to_pandas(): AttributeError
\*   _invoke_giskard (lines 517-550): generate_with_giskard has no
\*     parameters document_paths and model (giskard_gen.py lines 14-19):
\*     the call of line 529 raises TypeError before the engine runs
Invoke(function_name, engine) ==
    CASE function_name = "generate_with_deepeval" ->
            IF engine = EngineRaised
            THEN [raised |-> TRUE, tcs |-> <<>>, exs |-> <<>>]
            ELSE [raised |-> FALSE,
                  tcs |-> [i \in 1..engine |-> BackendTestCase("deepeval", i)],
                  exs |-> [i \in 1..engine |-> BackendExample("deepeval", i)]]
      [] function_name = "generate_with_ragas" ->
            [raised |-> TRUE, tcs |-> <<>>, exs |-> <<>>]
      [] function_name = "generate_with_giskard" ->
            [raised |-> TRUE, tcs |-> <<>>, exs |-> <<>>]
      [] OTHER -> [raised |-> FALSE, tcs |-> <<>>, exs |-> <<>>]

\* the engine behind a tool name; giskard's is never reached
EngineOf(function_name) ==
    CASE function_name = "generate_with_deepeval" -> "deepeval"
      [] function_name = "generate_with_ragas" -> "ragas"
      [] OTHER -> None

EngineOutcomes == {EngineRaised} \cup (0..MaxRows)

\* lines 214-231: the routing call, then the policy document when some tool
\* was selected; every exception ends the pass (line 259)
Routing ==
    /\ pc = "routing"
    /\ \/ /\ history' = Append(history, Event("routing", "", 0, "raised"))
          /\ UNCHANGED <<tool_calls, ti, policy_doc>>
          /\ pc' = "final_check"
       \/ \E calls \in ToolCallLists :
            /\ history' = Append(history, Event("routing", "", Len(calls), "ok"))
            /\ tool_calls' = calls
            /\ IF calls = <<>>
               THEN /\ pc' = "final_check"
                    /\ UNCHANGED <<ti, policy_doc>>
               ELSE \/ /\ policy_doc' = mkstemp
                       /\ ti' = 1
                       /\ pc' = "tool_calls"
                    \/ \* mkstemp raises, or building or writing the
                       \* content does (lines 296-309)
                       /\ policy_doc' \in {NoPolicyDoc, mkstemp}
                       /\ ti' = ti
                       /\ pc' = "final_check"
    /\ UNCHANGED <<routerVars, formats, fi, idx, test_cases, dataset_examples, env, auxVars>>

\* lines 233-252: one selected tool call; its failure skips it
InvokeTool ==
    /\ pc = "tool_calls"
    /\ ti <= Len(tool_calls)
    /\ LET function_name == tool_calls[ti]
       IN \/ \* json.loads(tool_call.function.arguments) raises
             UNCHANGED <<test_cases, dataset_examples, history>>
          \/ \E engine \in EngineOutcomes :
               LET r == Invoke(function_name, engine)
               IN /\ EngineOf(function_name) = None => engine = EngineRaised
                  /\ history' =
                       IF EngineOf(function_name) = None THEN history
                       ELSE Append(history,
                              Event("backend", EngineOf(function_name),
                                    IF engine = EngineRaised THEN 0 ELSE engine,
                                    IF engine = EngineRaised THEN "raised" ELSE "ok"))
                  /\ IF r.raised
                     THEN UNCHANGED <<test_cases, dataset_examples>>
                     ELSE /\ test_cases' = test_cases \o r.tcs
                          /\ dataset_examples' = dataset_examples \o r.exs
    /\ ti' = ti + 1
    /\ UNCHANGED <<pc, routerVars, formats, fi, idx, tool_calls, policy_doc, env, auxVars>>

\* lines 254-257: the policy document is removed after the last tool call;
\* fd is closed neither here nor in prepare_policy_documents, whose
\* "with open(temp_path, 'w')" opens and closes a descriptor of its own
Cleanup ==
    /\ pc = "tool_calls"
    /\ ti > Len(tool_calls)
    /\ policy_doc' = [policy_doc EXCEPT !.file = "deleted"]
    /\ pc' = "final_check"
    /\ UNCHANGED <<routerVars, formats, fi, idx, test_cases, dataset_examples,
                   tool_calls, ti, env, auxVars, history>>

(***************************************************************************)
(* generation/fallback.py: generate_with_openai_fallback                   *)
(*                                                                         *)
(* A key of the parsed reply that may be missing is a sequence: <<>> when  *)
(* the key is absent, <<v>> when it is present with value v.               *)
(***************************************************************************)
Absent == <<>>

\* dict.get(key, default)
Get(opt, default) == IF opt = Absent THEN default ELSE opt[1]

\* entries of data["test_cases"]: nothing but defaults; an id and three
\* axes; a single axis; a metadata object with a "generator" key
TcDataSet ==
    {[id |-> Absent, parameter_variation_axes |-> Absent, generator |-> Absent],
     [id |-> << <<"tc_", "llm", "", 1>> >>,
      parameter_variation_axes |-> << <<"tone", "length", "topic">> >>,
      generator |-> Absent],
     [id |-> Absent, parameter_variation_axes |-> << <<"tone">> >>,
      generator |-> Absent],
     [id |-> Absent, parameter_variation_axes |-> Absent,
      generator |-> <<"deepeval">>]}

\* entries of data["dataset_examples"]: the roles of input.messages (empty
\* when the key is missing), test_case_id, evaluation_criteria, policy_ids
ExDataSet ==
    {[messages |-> <<"user">>, test_case_id |-> Absent,
      evaluation_criteria |-> Absent, policy_ids |-> Absent],
     [messages |-> <<"operator">>, test_case_id |-> Absent,
      evaluation_criteria |-> Absent, policy_ids |-> Absent],
     [messages |-> <<"user">>, test_case_id |-> << <<"tc_", "llm", "", 1>> >>,
      evaluation_criteria |-> Absent, policy_ids |-> <<PolicyIds>>],
     [messages |-> <<>>, test_case_id |-> Absent,
      evaluation_criteria |-> Absent, policy_ids |-> Absent],
     [messages |-> <<"user">>, test_case_id |-> Absent,
      evaluation_criteria |-> << <<"relevance", "tone">> >>, policy_ids |-> Absent]}

\* lists of at most n entries: entries that leave every key to its default,
\* then one entry of any kind
ListsEndingWith(S, plain, n) ==
    {<<>>} \cup {[i \in 1..k |-> IF i < k THEN plain ELSE v] : k \in 1..n, v \in S}

TcPlain == [id |-> Absent, parameter_variation_axes |-> Absent, generator |-> Absent]

ExPlain == [messages |-> <<"user">>, test_case_id |-> Absent,
            evaluation_criteria |-> Absent, policy_ids |-> Absent]

\* what the model call of the last-resort generator yields: an API error,
\* text that json.loads rejects, or a parsed object
FallbackReplies ==
    {[kind |-> k, test_cases |-> <<>>, dataset_examples |-> <<>>] :
        k \in {"api_error", "malformed_json"}}
    \cup [kind : {"data"},
          test_cases : ListsEndingWith(TcDataSet, TcPlain, MaxFallbackItems),
          dataset_examples : ListsEndingWith(ExDataSet, ExPlain, MaxFallbackItems)]

\* lines 107-123; the spread of tc_data["metadata"] comes after the
\* "generator" key of the literal (lines 117-121) and replaces its value
FallbackTestCase(tc_data, i) ==
    [id |-> Get(tc_data.id, <<"tc_", UcSuffix, "", i>>),
     use_case_id |-> UseCaseId,
     parameter_variation_axes |->
        Get(tc_data.parameter_variation_axes, <<"tone", "complexity">>),
     parameters |-> <<>>,
     policy_ids |-> <<>>,
     generator |-> Get(tc_data.generator, "openai_fallback"),
     tier |-> "fallback"]

\* as InputDataRaises, without the check of the target message's role
InputDataRaises_NoRoleCheck(roles, tmi) ==
    \/ Len(roles) < 1
    \/ /\ tmi # Absent
       /\ ~(0 <= tmi[1] /\ tmi[1] < Len(roles))

\* as InputDataRaises, without the minimum length of messages
InputDataRaises_NoMinLength(roles, tmi) ==
    /\ tmi # Absent
    /\ \/ ~(0 <= tmi[1] /\ tmi[1] < Len(roles))
       \/ roles[tmi[1] + 1] # "operator"

\* InputData(...) raises (models/dataset_example.py lines 16-44); roles is
\* the list of the messages' roles, tmi is absent or <<index>>
InputDataRaises(roles, tmi) ==
    \/ Len(roles) < 1
    \/ /\ tmi # Absent
       /\ \/ ~(0 <= tmi[1] /\ tmi[1] < Len(roles))
          \/ roles[tmi[1] + 1] # "operator"

\* lines 136-145
FallbackTargetIndex(example_format, roles) ==
    IF example_format = "single_utterance_correction" THEN <<0>>
    ELSE IF example_format = "dialog_last_turn_correction" THEN <<Len(roles) - 1>>
    ELSE Absent

\* line 136
FallbackFormat(fmts) == IF fmts # <<>> THEN fmts[1] ELSE "single_turn_qa"

MinOf(a, b) == IF a < b THEN a ELSE b

FallbackExample(ex_data, i, tcs, fmts) ==
    [id |-> <<"ex_", UcSuffix, "", i>>,
     use_case_id |-> UseCaseId,
     test_case_id |-> Get(ex_data.test_case_id, tcs[MinOf(i - 1, Len(tcs) - 1) + 1].id),
     format |-> FallbackFormat(fmts),
     input |-> [messages |-> ex_data.messages,
                target_message_index |->
                    FallbackTargetIndex(FallbackFormat(fmts), ex_data.messages)],
     evaluation_criteria |->
        Get(ex_data.evaluation_criteria,
            <<"relevance", "policy_compliance", "response_completeness">>),
     policy_ids |-> Get(ex_data.policy_ids, <<PolUnknown>>),
     generator |-> "openai_fallback",
     source |-> None,
     tier |-> "fallback"]

\* lines 128-168 without the validation of the models
FallbackExampleRaises_NoInputValidation(ex_data, i, tcs, fmts) ==
    Len(tcs) = 0

\* lines 128-168: the i-th example raises; tcs are the TestCases built
\* before.  The default of test_case_id (line 153) is evaluated whether or
\* not the key is present: IndexError on an empty list.
FallbackExampleRaises(ex_data, i, tcs, fmts) ==
    \/ Len(tcs) = 0
    \/ InputDataRaises(ex_data.messages,
                       FallbackTargetIndex(FallbackFormat(fmts), ex_data.messages))
    \/ DatasetExampleRaises(FallbackExample(ex_data, i, tcs, fmts))

\* the exception the body ends with, None when it returns: the model call
\* fails, json.loads fails, a model rejects its fields, or line 153 indexes
\* the empty list of test cases
FallbackError(reply, tcs, fmts) ==
    IF reply.kind = "api_error" THEN "APIError"
    ELSE IF reply.kind = "malformed_json" THEN "JSONDecodeError"
    ELSE IF \E i \in 1..Len(tcs) : TestCaseRaises(tcs[i]) THEN "ValidationError"
    ELSE IF \E i \in 1..Len(reply.dataset_examples) :
               FallbackExampleRaises(reply.dataset_examples[i], i, tcs, fmts)
         THEN IF Len(tcs) = 0 THEN "IndexError" ELSE "ValidationError"
    ELSE None

\* generate_with_openai_fallback (lines 60-179): every exception of the
\* body leaves as RuntimeError
generate_with_openai_fallback(num_test_cases, fmts, reply) ==
    LET tcs == [i \in 1..Len(reply.test_cases) |->
                    FallbackTestCase(reply.test_cases[i], i)]
        error == FallbackError(reply, tcs, fmts)
    IN IF error # None
       THEN [raised |-> "RuntimeError", cause |-> error,
             test_cases |-> <<>>, dataset_examples |-> <<>>]
       ELSE [raised |-> None, cause |-> None,
             test_cases |-> tcs,
             dataset_examples |->
                [i \in 1..Len(reply.dataset_examples) |->
                    FallbackExample(reply.dataset_examples[i], i, tcs, fmts)]]

(***************************************************************************)
(* orchestrate_generation, step 4 and the exits                            *)
(***************************************************************************)
\* line 263
NeedsFallback(tcs, m) == Len(tcs) < m

\* lines 263-269: the last-resort generator is asked for the deficit; its
\* RuntimeError leaves orchestrate_generation
FinalFallback ==
    /\ pc = "final_check"
    /\ NeedsFallback(test_cases, min_test_cases)
    /\ \E reply \in FallbackReplies :
         LET num == min_test_cases - Len(test_cases)
             r == generate_with_openai_fallback(num, formats, reply)
         IN IF r.raised # None
            THEN /\ pc' = "raised"
                 /\ history' = Append(history, Event("fallback", r.cause, num, "raised"))
                 /\ UNCHANGED <<test_cases, dataset_examples>>
            ELSE /\ pc' = "done"
                 /\ history' = Append(history, Event("fallback", "", num, "ok"))
                 /\ test_cases' = test_cases \o r.test_cases
                 /\ dataset_examples' = dataset_examples \o r.dataset_examples
    /\ UNCHANGED <<routerVars, formats, fi, idx, tool_calls, ti, policy_doc, env, auxVars>>

\* lines 263 and 271-276: enough test cases, the lists are returned
Return ==
    /\ pc = "final_check"
    /\ ~NeedsFallback(test_cases, min_test_cases)
    /\ pc' = "done"
    /\ UNCHANGED <<routerVars, orchVars>>

\* lines 203-207: the adapter pass raised as a whole; the result is what
\* the last-resort generator returns for min_test_cases
FallbackOnly ==
    /\ pc = "fallback_only"
    /\ \E reply \in FallbackReplies :
         LET r == generate_with_openai_fallback(min_test_cases, formats, reply)
         IN IF r.raised # None
            THEN /\ pc' = "raised"
                 /\ history' = Append(history,
                        Event("fallback", r.cause, min_test_cases, "raised"))
                 /\ UNCHANGED <<test_cases, dataset_examples>>
            ELSE /\ pc' = "done"
                 /\ history' = Append(history,
                        Event("fallback", "", min_test_cases, "ok"))
                 /\ test_cases' = r.test_cases
                 /\ dataset_examples' = r.dataset_examples
    /\ UNCHANGED <<routerVars, formats, fi, idx, tool_calls, ti, policy_doc, env, auxVars>>

Next ==
    \/ Start
    \/ GetAdapterFails
    \/ GetAdapter
    \/ DispatchVariation
    \/ NextFormat
    \/ SupplementCheck
    \/ Routing
    \/ InvokeTool
    \/ Cleanup
    \/ FinalFallback
    \/ Return
    \/ FallbackOnly

Spec == Init /\ [][Next]_vars

(***************************************************************************)
(* generation/coverage.py: enforce_coverage                                *)
(*                                                                         *)
(* The models validate a field when the object is built and not when the   *)
(* field is assigned later, so a batch handed to enforce_coverage may hold *)
(* items that break the soft limits.                                       *)
(***************************************************************************)
MaxCoverageTestCases == 3
MaxCoverageExamples == 1

\* defaults of the parameters min_criteria and min_policy_ids
min_criteria == 3
min_policy_ids == 1

CoverageId(prefix, n) == <<prefix, UcSuffix, "", n>>

\* test cases of a batch: two ids, one or two variation axes
CoverageTestCases ==
    [id : {CoverageId("tc_", 1), CoverageId("tc_", 2)},
     parameter_variation_axes : {<<"tone">>, <<"tone", "language">>}]

\* examples of a batch: the test case referred to is one of the batch or
\* none of it; two or three criteria; no or one policy id
CoverageExamples ==
    [id : {CoverageId("ex_", 1)},
     test_case_id : {CoverageId("tc_", 1), CoverageId("tc_", 3)},
     evaluation_criteria : {<<"relevance", "tone">>,
                            <<"relevance", "tone", "completeness">>},
     policy_ids : {<<>>, << <<"pol_", "001">> >>}]

\* line 57 with <= in place of <
TooFewTestCases_OrEqual(tcs, m) == Len(tcs) <= m

\* line 57
TooFewTestCases(tcs, m) == Len(tcs) < m

Warning(kind, subject) == <<kind, subject>>

\* lines 68-74
AxesWarnings(tcs) ==
    LET Bad(tc) == ~(2 <= Len(tc.parameter_variation_axes)
                     /\ Len(tc.parameter_variation_axes) <= 3)
        bad == SelectSeq(tcs, Bad)
    IN [i \in 1..Len(bad) |-> Warning("parameter_variation_axes", bad[i].id)]

\* lines 77-83
CriteriaWarnings(exs) ==
    LET Bad(ex) == Len(ex.evaluation_criteria) < min_criteria
        bad == SelectSeq(exs, Bad)
    IN [i \in 1..Len(bad) |-> Warning("evaluation_criteria", bad[i].id)]

\* lines 86-92
PolicyWarnings(exs) ==
    LET Bad(ex) == Len(ex.policy_ids) < min_policy_ids
        bad == SelectSeq(exs, Bad)
    IN [i \in 1..Len(bad) |-> Warning("policy_ids", bad[i].id)]

\* lines 95-96
IdsOf(tcs) == {tcs[i].id : i \in 1..Len(tcs)}

TestCaseIdsOf(exs) == {exs[i].test_case_id : i \in 1..Len(exs)}

\* as OrphanWarnings, with check 5 left out
OrphanWarnings_Skipped(tcs, exs) == <<>>

\* lines 98-102: one warning that names the test cases without example
OrphanWarnings(tcs, exs) ==
    LET orphan_test_cases == IdsOf(tcs) \ TestCaseIdsOf(exs)
    IN IF orphan_test_cases # {}
       THEN <<Warning("orphan_test_cases", orphan_test_cases)>>
       ELSE <<>>

\* lines 105-109: one warning that names the ids no test case carries
ReferenceWarnings(tcs, exs) ==
    LET invalid_references == TestCaseIdsOf(exs) \ IdsOf(tcs)
    IN IF invalid_references # {}
       THEN <<Warning("invalid_references", invalid_references)>>
       ELSE <<>>

\* as enforce_coverage, returning only the test cases with 2 or 3 axes
enforce_coverage_DropsInvalid(tcs, exs, m) ==
    LET Kept(tc) == Len(tc.parameter_variation_axes) \in {2, 3}
    IN IF TooFewTestCases(tcs, m)
       THEN [raised |-> "ValueError", test_cases |-> <<>>, examples |-> <<>>,
             warnings |-> <<>>]
       ELSE [raised |-> None, test_cases |-> SelectSeq(tcs, Kept), examples |-> exs,
             warnings |-> AxesWarnings(tcs) \o CriteriaWarnings(exs)
                          \o PolicyWarnings(exs) \o OrphanWarnings(tcs, exs)
                          \o ReferenceWarnings(tcs, exs)]

\* enforce_coverage (lines 54-120)
enforce_coverage(tcs, exs, m) ==
    IF TooFewTestCases(tcs, m)
    THEN [raised |-> "ValueError", test_cases |-> <<>>, examples |-> <<>>,
          warnings |-> <<>>]
    ELSE [raised |-> None, test_cases |-> tcs, examples |-> exs,
          warnings |-> AxesWarnings(tcs) \o CriteriaWarnings(exs)
                       \o PolicyWarnings(exs) \o OrphanWarnings(tcs, exs)
                       \o ReferenceWarnings(tcs, exs)]

\* a batch and a minimum, before the call
InitCoverage ==
    /\ pc = "coverage"
    /\ case = "support_bot"
    /\ min_test_cases \in 1..MaxMinTestCases
    /\ pairwise_combinations = <<>>
    /\ variations = <<>>
    /\ formats = None
    /\ fi = 0
    /\ idx = 0
    /\ test_cases \in SeqsUpTo(CoverageTestCases, MaxCoverageTestCases)
    /\ dataset_examples \in SeqsUpTo(CoverageExamples, MaxCoverageExamples)
    /\ tool_calls = <<>>
    /\ ti = 0
    /\ policy_doc = NoPolicyDoc
    /\ env = IdleEnv
    /\ call = None
    /\ frameworks_used = {}
    /\ result = None
    /\ warnings = <<>>
    /\ history = <<>>

\* the call of enforce_coverage on the batch
EnforceCoverage ==
    /\ pc = "coverage"
    /\ LET r == enforce_coverage(test_cases, dataset_examples, min_test_cases)
       IN /\ pc' = IF r.raised # None THEN "coverage_raised" ELSE "coverage_returned"
          /\ warnings' = r.warnings
          /\ result' = r
    /\ UNCHANGED <<routerVars, formats, fi, idx, test_cases, dataset_examples,
                   tool_calls, ti, policy_doc, env, call, frameworks_used, history>>

NextCoverage == EnforceCoverage

SpecCoverage == InitCoverage /\ [][NextCoverage]_vars

\* C10: enforce_coverage raises ValueError exactly when the batch holds
\* fewer than min_test_cases test cases; with at least min_test_cases test
\* cases it returns, whatever soft limits the batch breaks.
C10_RaisesIffTooFew ==
    pc \in {"coverage_raised", "coverage_returned"} =>
        ((pc = "coverage_raised") <=> (Len(test_cases) < min_test_cases))

\* the call returned for a batch of exactly min_test_cases test cases that
\* breaks the soft limits on axes, criteria, policy ids and references
C10_Witness ==
    /\ pc = "coverage_returned"
    /\ Len(test_cases) = min_test_cases
    /\ \A kind \in {"parameter_variation_axes", "evaluation_criteria",
                    "policy_ids", "orphan_test_cases", "invalid_references"} :
          \E i \in 1..Len(warnings) : warnings[i][1] = kind

(***************************************************************************)
(* pipeline.py: run_pipeline, step 5, for one use case                     *)
(***************************************************************************)
\* lines 184-186: the generator names on the test cases kept
GeneratorsOf(tcs) == {tcs[i].generator : i \in 1..Len(tcs)}

\* lines 173-186, after orchestrate_generation returned for the arguments
\* of lines 163-170 (case and formats are left to their defaults):
\* enforce_coverage, whose ValueError ends the run, then the names are
\* collected
CollectFrameworks ==
    /\ pc = "done"
    /\ case = "support_bot"
    /\ formats = DefaultFormats("support_bot", None)
    /\ LET r == enforce_coverage(test_cases, dataset_examples, min_test_cases)
       IN IF r.raised # None
          THEN /\ pc' = "pipeline_raised"
               /\ UNCHANGED <<frameworks_used, warnings>>
          ELSE /\ pc' = "collected"
               /\ frameworks_used' = frameworks_used \cup GeneratorsOf(r.test_cases)
               /\ warnings' = r.warnings
    /\ UNCHANGED <<routerVars, formats, fi, idx, test_cases, dataset_examples,
                   tool_calls, ti, policy_doc, env, call, result, history>>

NextPipeline == Next \/ CollectFrameworks

SpecPipeline == Init /\ [][NextPipeline]_vars

(***************************************************************************)
(* validation/integrity_checker.py: check_referential_integrity            *)
(***************************************************************************)
MaxIntegrityTestCases == 2
MaxIntegrityExamples == 2

\* an error message: what refers, the id of the referring item, the id
\* referred to
IntegrityError(kind, id, ref) == <<kind, id, ref>>

\* lines 55-59
TestCaseUseCaseErrors(use_case_ids, tcs) ==
    LET Bad(tc) == tc.use_case_id \notin use_case_ids
        bad == SelectSeq(tcs, Bad)
    IN [i \in 1..Len(bad) |->
            IntegrityError("test_case.use_case_id", bad[i].id, bad[i].use_case_id)]

\* lines 62-66
ExampleUseCaseErrors(use_case_ids, exs) ==
    LET Bad(ex) == ex.use_case_id \notin use_case_ids
        bad == SelectSeq(exs, Bad)
    IN [i \in 1..Len(bad) |->
            IntegrityError("example.use_case_id", bad[i].id, bad[i].use_case_id)]

\* lines 69-73 with the check left out
ExampleTestCaseErrors_Skipped(test_case_ids, exs) == <<>>

\* lines 69-73
ExampleTestCaseErrors(test_case_ids, exs) ==
    LET Bad(ex) == ex.test_case_id \notin test_case_ids
        bad == SelectSeq(exs, Bad)
    IN [i \in 1..Len(bad) |->
            IntegrityError("example.test_case_id", bad[i].id, bad[i].test_case_id)]

\* lines 77-81: the policy ids of one example
PolicyErrorsOf(policy_ids, ex) ==
    LET Bad(policy_id) == policy_id \notin policy_ids
        bad == SelectSeq(ex.policy_ids, Bad)
    IN [i \in 1..Len(bad) |-> IntegrityError("example.policy_ids", ex.id, bad[i])]

\* lines 76-81
RECURSIVE ExamplePolicyErrors(_, _)
ExamplePolicyErrors(policy_ids, exs) ==
    IF exs = <<>> THEN <<>>
    ELSE PolicyErrorsOf(policy_ids, Head(exs))
         \o ExamplePolicyErrors(policy_ids, Tail(exs))

\* check_referential_integrity (lines 47-83) on the ids of the use cases
\* and of the policies, the test cases and the examples
check_referential_integrity(use_case_ids, policy_ids, tcs, exs) ==
    TestCaseUseCaseErrors(use_case_ids, tcs)
    \o ExampleUseCaseErrors(use_case_ids, exs)
    \o ExampleTestCaseErrors(IdsOf(tcs), exs)
    \o ExamplePolicyErrors(policy_ids, exs)

\* the use cases and the policies of the artifact set
UseCaseIds == {UseCaseId}

PolicyIdSet == SeqToSet(PolicyIds)

\* test cases of an artifact set: the use case referred to exists or not
IntegrityTestCases ==
    [id : {CoverageId("tc_", 1), CoverageId("tc_", 2)},
     use_case_id : {UseCaseId, <<"uc_", "999">>}]

\* examples of an artifact set: every reference is to an item of the set,
\* or one of the three kinds of reference is to none
IntegrityExamples ==
    {[id |-> id, use_case_id |-> refs[1], test_case_id |-> refs[2],
      policy_ids |-> refs[3]] :
        id \in {CoverageId("ex_", 1), CoverageId("ex_", 2)},
        refs \in {<<UseCaseId, CoverageId("tc_", 1), PolicyIds>>,
                  <<UseCaseId, CoverageId("tc_", 2), PolicyIds>>,
                  <<(<<"uc_", "999">>), CoverageId("tc_", 1), PolicyIds>>,
                  <<UseCaseId, CoverageId("tc_", 3), PolicyIds>>,
                  <<UseCaseId, CoverageId("tc_", 1), PolicyIds \o UnknownPolicyIds>>}}

\* ids that a test_case_id can be changed to
MutationIds == {CoverageId("tc_", 3), CoverageId("tc_", 4)}

\* an artifact set, before the check
InitIntegrity ==
    /\ pc = "integrity"
    /\ case = "support_bot"
    /\ min_test_cases = 1
    /\ pairwise_combinations = <<>>
    /\ variations = <<>>
    /\ formats = None
    /\ fi = 0
    /\ idx = 0
    /\ test_cases \in SeqsUpTo(IntegrityTestCases, MaxIntegrityTestCases)
    /\ dataset_examples \in SeqsUpTo(IntegrityExamples, MaxIntegrityExamples)
    /\ tool_calls = <<>>
    /\ ti = 0
    /\ policy_doc = NoPolicyDoc
    /\ env = IdleEnv
    /\ call = None
    /\ frameworks_used = {}
    /\ result = None
    /\ warnings = <<>>
    /\ history = <<>>

\* the call of check_referential_integrity on the artifact set
CheckIntegrity ==
    /\ pc = "integrity"
    /\ result' = check_referential_integrity(UseCaseIds, PolicyIdSet,
                                             test_cases, dataset_examples)
    /\ pc' = "integrity_checked"
    /\ UNCHANGED <<routerVars, formats, fi, idx, test_cases, dataset_examples,
                   tool_calls, ti, policy_doc, env, call, frameworks_used, warnings,
                   history>>

\* one example's test_case_id of a set that passed the check is changed to
\* the id of no test case, and the set is checked again
MutateAndCheck ==
    /\ pc = "integrity_checked"
    /\ result = <<>>
    /\ \E k \in 1..Len(dataset_examples) :
         \E new_id \in MutationIds \ IdsOf(test_cases) :
            /\ dataset_examples' =
                  [dataset_examples EXCEPT ![k].test_case_id = new_id]
            /\ idx' = k
            /\ result' = check_referential_integrity(UseCaseIds, PolicyIdSet,
                                                     test_cases, dataset_examples')
    /\ pc' = "integrity_mutated"
    /\ UNCHANGED <<routerVars, formats, fi, test_cases, tool_calls, ti,
                   policy_doc, env, call, frameworks_used, warnings, history>>

NextIntegrity == CheckIntegrity \/ MutateAndCheck

SpecIntegrity == InitIntegrity /\ [][NextIntegrity]_vars

\* C11: when one example's test_case_id of an artifact set that passes the
\* check is changed to the id of no test case, the check returns exactly
\* one violation, and it names that example's id and the new test_case_id.
C11_OneViolationPerMutation ==
    pc = "integrity_mutated" =>
        /\ dataset_examples[idx].test_case_id \notin IdsOf(test_cases)
        /\ result = <<IntegrityError("example.test_case_id",
                                     dataset_examples[idx].id,
                                     dataset_examples[idx].test_case_id)>>

\* the second of two examples that refer to the same test case was changed
C11_Witness ==
    /\ pc = "integrity_mutated"
    /\ Len(dataset_examples) = 2
    /\ idx = 2
    /\ dataset_examples[1].test_case_id \in IdsOf(test_cases)
    /\ Len(result) = 1

(***************************************************************************)
(* generation/adapters: deepeval_adapter.py, ragas_adapter.py,             *)
(* giskard_adapter.py                                                      *)
(*                                                                         *)
(* A native record (golden or testset row) is described by what the        *)
(* adapters read of it: whether reading a field fails, what the input      *)
(* field holds, the evolution or question type, and the policy ids that    *)
(* the pattern pol_\w+ finds in its context.                               *)
(***************************************************************************)
MaxIndex == 2

Engines == {"deepeval", "ragas", "giskard"}

RecordTypes == {"reasoning", "multi_context", "conversational", "unknown"}

NativeRecords ==
    {r \in [access : {"ok", "raises"},
            input : {"text", "missing", "not_text"},
            type : RecordTypes,
            context_policy_ids : {<<>>, PolicyIds}] :
        r.access = "raises" =>
            r.input = "missing" /\ r.type = "unknown" /\ r.context_policy_ids = <<>>}

\* use_case_id.replace('uc_', '')
SuffixOf(use_case_id) == use_case_id[2]

\* f"tc_{use_case_id.replace('uc_', '')}{test_case_index:03d}"
EngineTcId(use_case_id, i) == <<"tc_", SuffixOf(use_case_id), "", i>>

\* f"ex_{use_case_id.replace('uc_', '')}{example_index:03d}"
EngineExId(use_case_id, i) == <<"ex_", SuffixOf(use_case_id), "", i>>

\* the branch on the type: deepeval_adapter.py lines 66-79,
\* ragas_adapter.py lines 64-72, giskard_adapter.py lines 59-67
EngineAxes(engine, type) ==
    CASE engine = "deepeval" ->
            IF type = "reasoning" THEN <<"reasoning_depth", "logical_complexity">>
            ELSE IF type = "multi_context"
                 THEN <<"context_count", "cross_reference_depth">>
            ELSE FirstN(<<"tone", "complexity", "policy_boundary">>, 3)
      [] engine = "ragas" ->
            IF type = "reasoning" THEN <<"reasoning_depth", "context_complexity">>
            ELSE IF type = "multi_context"
                 THEN <<"context_count", "cross_reference_depth">>
            ELSE <<"tone", "complexity">>
      [] OTHER ->
            IF type = "multi_context" THEN <<"context_complexity", "knowledge_depth">>
            ELSE IF type = "conversational"
                 THEN <<"conversation_style", "formality_level">>
            ELSE <<"question_complexity", "knowledge_specificity">>

\* deepeval_adapter.py lines 174-195, ragas_adapter.py lines 163-183,
\* giskard_adapter.py lines 155-174
EngineCriteria(engine, type) ==
    CASE engine = "deepeval" ->
            IF type = "reasoning"
            THEN <<"logical_correctness", "reasoning_clarity", "policy_compliance",
                   "response_completeness">>
            ELSE IF type = "multi_context"
                 THEN <<"context_integration", "cross_reference_accuracy",
                        "policy_compliance", "response_completeness">>
            ELSE <<"relevance_to_query", "policy_compliance",
                   "response_completeness", "answer_accuracy">>
      [] engine = "ragas" ->
            IF type = "reasoning"
            THEN <<"reasoning_correctness", "logical_flow", "policy_compliance",
                   "answer_completeness">>
            ELSE IF type = "multi_context"
                 THEN <<"context_integration", "cross_reference_accuracy",
                        "policy_compliance", "response_completeness">>
            ELSE <<"relevance_to_query", "answer_accuracy", "policy_compliance">>
      [] OTHER ->
            IF type = "multi_context"
            THEN <<"knowledge_accuracy", "context_relevance", "answer_completeness",
                   "policy_compliance">>
            ELSE IF type = "conversational"
                 THEN <<"conversation_naturalness", "answer_relevance",
                        "policy_compliance">>
            ELSE <<"knowledge_accuracy", "answer_relevance", "policy_compliance">>

\* the object the try block of adapt_*_to_test_case builds
EngineTestCase(engine, record, use_case_id, i) ==
    [id |-> EngineTcId(use_case_id, i),
     use_case_id |-> use_case_id,
     parameter_variation_axes |-> EngineAxes(engine, record.type),
     parameters |-> <<>>,
     policy_ids |-> <<>>,
     generator |-> engine,
     adaptation_error |-> FALSE,
     tier |-> "backend"]

\* the object the except block of adapt_*_to_test_case builds
\* (deepeval_adapter.py lines 105-112)
PlaceholderTestCase(engine, use_case_id, i) ==
    [id |-> EngineTcId(use_case_id, i),
     use_case_id |-> use_case_id,
     parameter_variation_axes |-> <<"tone", "complexity">>,
     parameters |-> <<>>,
     policy_ids |-> <<>>,
     generator |-> engine,
     adaptation_error |-> TRUE,
     tier |-> "backend"]

\* a statement of the try block before the constructor raises: reading a
\* field fails; or (DeepEval only, lines 50-51 and 159) the input is not
\* a string, which len() and Message(content=...) reject, where the other
\* adapters convert with str()
ReadingRaises(engine, record) ==
    \/ record.access = "raises"
    \/ engine = "deepeval" /\ record.input = "not_text"

\* adapt_deepeval_golden_to_test_case, adapt_ragas_row_to_test_case,
\* adapt_giskard_row_to_test_case: raised tells whether an exception left
AdaptToTestCase(engine, record, use_case_id, i) ==
    LET tc == EngineTestCase(engine, record, use_case_id, i)
        placeholder == PlaceholderTestCase(engine, use_case_id, i)
    IN IF ~ReadingRaises(engine, record) /\ ~TestCaseRaises(tc)
       THEN [raised |-> FALSE, kind |-> "test_case", value |-> tc]
       ELSE IF TestCaseRaises(placeholder)
            THEN [raised |-> TRUE, kind |-> "test_case", value |-> placeholder]
            ELSE [raised |-> FALSE, kind |-> "test_case", value |-> placeholder]

\* lines 198-213 of deepeval_adapter.py: policy_ids is None (Absent) or
\* the list passed
EnginePolicyIds(record, policy_ids) ==
    IF policy_ids = Absent
    THEN IF record.context_policy_ids = <<>> THEN <<PolUnknown>>
         ELSE record.context_policy_ids
    ELSE policy_ids[1]

\* as OrDefault, without the "or"
OrDefault_Skipped(list, default) == list

\* "list or default" of Python
OrDefault(list, default) == IF list = <<>> THEN default ELSE list

\* the object the try block of adapt_*_to_example builds
EngineExample(engine, record, use_case_id, test_case_id, i, policy_ids) ==
    [id |-> EngineExId(use_case_id, i),
     use_case_id |-> use_case_id,
     test_case_id |-> test_case_id,
     format |-> "single_turn_qa",
     input |-> [messages |-> <<"user">>, target_message_index |-> <<>>],
     evaluation_criteria |-> EngineCriteria(engine, record.type),
     policy_ids |-> EnginePolicyIds(record, policy_ids),
     generator |-> engine,
     adaptation_error |-> FALSE,
     source |-> None,
     tier |-> "backend"]

\* the object the except block of adapt_*_to_example builds
\* (deepeval_adapter.py lines 248-259); when the exception came before
\* line 198, policy_ids is still the argument
PlaceholderExample(engine, use_case_id, test_case_id, i, policy_ids) ==
    [id |-> EngineExId(use_case_id, i),
     use_case_id |-> use_case_id,
     test_case_id |-> test_case_id,
     format |-> "single_turn_qa",
     input |-> [messages |-> <<"user">>, target_message_index |-> <<>>],
     evaluation_criteria |-> <<"relevance", "policy_compliance", "completeness">>,
     policy_ids |-> OrDefault(Get(policy_ids, <<>>), <<PolUnknown>>),
     generator |-> engine,
     adaptation_error |-> TRUE,
     source |-> None,
     tier |-> "backend"]

\* adapt_deepeval_golden_to_example, adapt_ragas_row_to_example,
\* adapt_giskard_row_to_example
AdaptToExample(engine, record, use_case_id, test_case_id, i, policy_ids) ==
    LET ex == EngineExample(engine, record, use_case_id, test_case_id, i, policy_ids)
        placeholder ==
            PlaceholderExample(engine, use_case_id, test_case_id, i, policy_ids)
    IN IF ~ReadingRaises(engine, record) /\ ~DatasetExampleRaises(ex)
       THEN [raised |-> FALSE, kind |-> "example", value |-> ex]
       ELSE IF DatasetExampleRaises(placeholder)
            THEN [raised |-> TRUE, kind |-> "example", value |-> placeholder]
            ELSE [raised |-> FALSE, kind |-> "example", value |-> placeholder]

adapt_deepeval_golden_to_test_case(golden, use_case_id, test_case_index) ==
    AdaptToTestCase("deepeval", golden, use_case_id, test_case_index)

adapt_ragas_row_to_test_case(row, use_case_id, test_case_index) ==
    AdaptToTestCase("ragas", row, use_case_id, test_case_index)

adapt_giskard_row_to_test_case(row, use_case_id, test_case_index) ==
    AdaptToTestCase("giskard", row, use_case_id, test_case_index)

adapt_deepeval_golden_to_example(golden, use_case_id, test_case_id, i, policy_ids) ==
    AdaptToExample("deepeval", golden, use_case_id, test_case_id, i, policy_ids)

adapt_ragas_row_to_example(row, use_case_id, test_case_id, i, policy_ids) ==
    AdaptToExample("ragas", row, use_case_id, test_case_id, i, policy_ids)

adapt_giskard_row_to_example(row, use_case_id, test_case_id, i, policy_ids) ==
    AdaptToExample("giskard", row, use_case_id, test_case_id, i, policy_ids)

\* the arguments of one adapter call: policy_ids is None, the ids of the
\* policies, or the empty list
AdapterCalls ==
    [engine : Engines,
     record : NativeRecords,
     use_case_id : {UseCaseId, <<"uc_", "002">>},
     index : 1..MaxIndex,
     policy_ids : {Absent, <<PolicyIds>>, << <<>> >>}]

InitAdapters ==
    /\ pc = "adapter_call"
    /\ case = "support_bot"
    /\ min_test_cases = 1
    /\ pairwise_combinations = <<>>
    /\ variations = <<>>
    /\ formats = None
    /\ fi = 0
    /\ idx = 0
    /\ test_cases = <<>>
    /\ dataset_examples = <<>>
    /\ tool_calls = <<>>
    /\ ti = 0
    /\ policy_doc = NoPolicyDoc
    /\ env = IdleEnv
    /\ call \in AdapterCalls
    /\ frameworks_used = {}
    /\ result = None
    /\ warnings = <<>>
    /\ history = <<>>

\* one call of adapt_*_to_test_case
AdaptTestCase ==
    /\ pc = "adapter_call"
    /\ result' =
          CASE call.engine = "deepeval" ->
                  adapt_deepeval_golden_to_test_case(call.record, call.use_case_id,
                                                     call.index)
            [] call.engine = "ragas" ->
                  adapt_ragas_row_to_test_case(call.record, call.use_case_id,
                                               call.index)
            [] OTHER ->
                  adapt_giskard_row_to_test_case(call.record, call.use_case_id,
                                                 call.index)
    /\ pc' = "adapted"
    /\ UNCHANGED <<routerVars, formats, fi, idx, test_cases, dataset_examples,
                   tool_calls, ti, policy_doc, env, call, frameworks_used, warnings,
                   history>>

\* one call of adapt_*_to_example, for the test case of the same index
AdaptExample ==
    /\ pc = "adapter_call"
    /\ LET test_case_id == EngineTcId(call.use_case_id, call.index)
       IN result' =
            CASE call.engine = "deepeval" ->
                    adapt_deepeval_golden_to_example(call.record, call.use_case_id,
                        test_case_id, call.index, call.policy_ids)
              [] call.engine = "ragas" ->
                    adapt_ragas_row_to_example(call.record, call.use_case_id,
                        test_case_id, call.index, call.policy_ids)
              [] OTHER ->
                    adapt_giskard_row_to_example(call.record, call.use_case_id,
                        test_case_id, call.index, call.policy_ids)
    /\ pc' = "adapted"
    /\ UNCHANGED <<routerVars, formats, fi, idx, test_cases, dataset_examples,
                   tool_calls, ti, policy_doc, env, call, frameworks_used, warnings,
                   history>>

NextAdapters == AdaptTestCase \/ AdaptExample

SpecAdapters == InitAdapters /\ [][NextAdapters]_vars

(***************************************************************************)
(* generation/format_adapters: single_turn_qa.py, operator_corrections.py  *)
(*                                                                         *)
(* generate_example and validate_format of the three adapters.  A message  *)
(* is its role; the reply of the structured-output call is an API error,   *)
(* a refusal (parsed is None) or a parsed object.                          *)
(***************************************************************************)
MaxDialogLen == 3

\* Literal of Message.role (models/dataset_example.py line 10)
MessageRoles == {"user", "operator", "assistant", "system"}

\* msg["role"] of the entries of dialog_messages: roles of the prompt, and
\* one that Message rejects
DialogRoles == {"user", "operator", "moderator"}

FormatReplies ==
    {[kind |-> k, dialog_messages |-> <<>>,
      evaluation_criteria |-> <<"relevance", "tone", "completeness">>,
      relevant_policy_ids |-> PolicyIds] : k \in {"api_error", "refusal"}}
    \cup [kind : {"parsed"},
          dialog_messages : SeqsUpTo(DialogRoles, MaxDialogLen),
          evaluation_criteria : {<<"relevance", "tone">>,
                                 <<"relevance", "tone", "completeness">>},
          relevant_policy_ids : {<<>>, PolicyIds, << <<"policy_", "001">> >>}]

\* the call of client.beta.chat.completions.parse raises, or reading the
\* fields of parsed does: the min_length limits of the output classes
\* (operator_corrections.py lines 12-45, single_turn_qa.py lines 12-26)
StructuredOutputRaises(format_name, reply) ==
    \/ reply.kind # "parsed"
    \/ Len(reply.evaluation_criteria) < 3
    \/ Len(reply.relevant_policy_ids) < 1
    \/ format_name = "dialog_last_turn_correction" /\ Len(reply.dialog_messages) < 2

\* the messages of the example: single_turn_qa.py line 134,
\* operator_corrections.py lines 152-156 and 406-409
FormatMessages(format_name, reply) ==
    CASE format_name = "single_turn_qa" -> <<"user">>
      [] format_name = "single_utterance_correction" -> <<"operator">>
      [] OTHER -> reply.dialog_messages

\* target_message_index: none, 0 (line 157), len(messages) - 1 (line 423)
FormatTargetIndex(format_name, messages) ==
    CASE format_name = "single_turn_qa" -> Absent
      [] format_name = "single_utterance_correction" -> <<0>>
      [] OTHER -> <<Len(messages) - 1>>

\* _generate_example_id: f"ex_{base}_{unique_suffix}"; the random suffix
\* is left out
FormatExampleId(test_case_id) ==
    <<"ex_", test_case_id[2], test_case_id[3], test_case_id[4]>>

\* the DatasetExample generate_example builds
FormatExample(format_name, reply, use_case_id, test_case_id) ==
    [id |-> FormatExampleId(test_case_id),
     use_case_id |-> use_case_id,
     test_case_id |-> test_case_id,
     format |-> format_name,
     input |-> [messages |-> FormatMessages(format_name, reply),
                target_message_index |->
                    FormatTargetIndex(format_name,
                                      FormatMessages(format_name, reply))],
     evaluation_criteria |-> reply.evaluation_criteria,
     policy_ids |-> reply.relevant_policy_ids,
     generator |-> AdapterGenerator(format_name),
     source |-> None,
     tier |-> "adapter"]

\* generate_example raises: the structured-output call, Message(...),
\* InputData(...) or DatasetExample(...)
GenerateExampleRaises(format_name, reply, use_case_id, test_case_id) ==
    LET messages == FormatMessages(format_name, reply)
    IN \/ StructuredOutputRaises(format_name, reply)
       \/ \E i \in 1..Len(messages) : messages[i] \notin MessageRoles
       \/ InputDataRaises(messages, FormatTargetIndex(format_name, messages))
       \/ DatasetExampleRaises(
             FormatExample(format_name, reply, use_case_id, test_case_id))

\* generate_example of the adapter of a format
generate_example(format_name, reply, use_case_id, test_case_id) ==
    IF GenerateExampleRaises(format_name, reply, use_case_id, test_case_id)
    THEN [raised |-> TRUE, example |-> None]
    ELSE [raised |-> FALSE,
          example |-> FormatExample(format_name, reply, use_case_id, test_case_id)]

\* one check of validate_format: its message when the condition fails
FormatError(failed, message) == IF failed THEN <<message>> ELSE <<>>

\* validate_format of the adapter of a format: single_turn_qa.py lines
\* 149-184, operator_corrections.py lines 171-206 and 437-473
validate_format(format_name, example) ==
    LET messages == example.input.messages
        tmi == example.input.target_message_index
    IN FormatError(example.format # format_name, "format")
       \o CASE format_name = "single_turn_qa" ->
                 FormatError(Len(messages) # 1, "messages")
                 \o FormatError(messages # <<>> /\ messages[1] # "user", "role")
                 \o FormatError(tmi # Absent, "target_message_index")
            [] format_name = "single_utterance_correction" ->
                 FormatError(Len(messages) # 1, "messages")
                 \o FormatError(messages # <<>> /\ messages[1] # "operator", "role")
                 \o FormatError(tmi # <<0>>, "target_message_index")
            [] OTHER ->
                 FormatError(Len(messages) < 2, "messages")
                 \o FormatError(messages # <<>> /\ messages[Len(messages)] # "operator",
                                "role")
                 \o FormatError(tmi # <<Len(messages) - 1>>, "target_message_index")

\* the calls: a format with an adapter and a reply; dialog_messages is
\* read by one adapter only
FormatCalls ==
    {c \in [format : AdapterFormats, reply : FormatReplies] :
        c.format # "dialog_last_turn_correction" => c.reply.dialog_messages = <<>>}

InitFormats ==
    /\ pc = "format_call"
    /\ case = "support_bot"
    /\ min_test_cases = 1
    /\ pairwise_combinations = <<>>
    /\ variations = <<>>
    /\ formats = None
    /\ fi = 0
    /\ idx = 0
    /\ test_cases = <<>>
    /\ dataset_examples = <<>>
    /\ tool_calls = <<>>
    /\ ti = 0
    /\ policy_doc = NoPolicyDoc
    /\ env = IdleEnv
    /\ call \in FormatCalls
    /\ frameworks_used = {}
    /\ result = None
    /\ warnings = <<>>
    /\ history = <<>>

\* generate_example, then validate_format on what it returned
\* (orchestrator.py lines 154-189)
GenerateExample ==
    /\ pc = "format_call"
    /\ LET r == generate_example(call.format, call.reply, UseCaseId,
                                 AdapterTcId(call.format, 1))
       IN IF r.raised
          THEN /\ pc' = "format_raised"
               /\ result' = [example |-> None, validation_errors |-> <<>>]
          ELSE /\ pc' = "format_returned"
               /\ result' = [example |-> r.example,
                             validation_errors |->
                                validate_format(call.format, r.example)]
    /\ UNCHANGED <<routerVars, formats, fi, idx, test_cases, dataset_examples,
                   tool_calls, ti, policy_doc, env, call, frameworks_used, warnings,
                   history>>

NextFormats == GenerateExample

SpecFormats == InitFormats /\ [][NextFormats]_vars

(***************************************************************************)
(* generation/source_classifier.py: classify_source_type called on its own *)
(***************************************************************************)
InitClassifier ==
    /\ pc = "classifier_call"
    /\ case = "support_bot"
    /\ min_test_cases = 1
    /\ pairwise_combinations = <<>>
    /\ variations = <<>>
    /\ formats = None
    /\ fi = 0
    /\ idx = 0
    /\ test_cases = <<>>
    /\ dataset_examples = <<>>
    /\ tool_calls = <<>>
    /\ ti = 0
    /\ policy_doc = NoPolicyDoc
    /\ env = IdleEnv
    /\ call \in ClassifierCalls
    /\ frameworks_used = {}
    /\ result = None
    /\ warnings = <<>>
    /\ history = <<>>

\* classify_source_type (lines 22-131); the event records the
\* client.beta.chat.completions.parse call of lines 112-120
ClassifySource ==
    /\ pc = "classifier_call"
    /\ pc' = "classified"
    /\ result' = classify_source_type(call.desc_has_faq, call.parameters, call.llm)
    /\ history' = IF HeuristicSource(call.desc_has_faq, call.parameters) = None
                  THEN <<<<"classifier", call.llm, 1,
                           IF ClassifierFailed(call.llm) THEN "raised" ELSE "ok">>>>
                  ELSE <<>>
    /\ UNCHANGED <<routerVars, formats, fi, idx, test_cases, dataset_examples,
                   tool_calls, ti, policy_doc, env, call, frameworks_used, warnings>>

NextClassifier == ClassifySource

SpecClassifier == InitClassifier /\ [][NextClassifier]_vars

(***************************************************************************)
(* extraction/llm_client.py and the callers of the OpenAI client: one      *)
(* structured-generation call, attempt by attempt.                         *)
(***************************************************************************)
\* the functions that make a structured-generation call
CallSites ==
    {"use_case_extractor", "policy_extractor", "single_turn_qa",
     "single_utterance_correction", "dialog_last_turn_correction",
     "source_classifier", "fallback"}

\* use_case_extractor.py line 135 and policy_extractor.py line 195 call
\* call_openai_structured; the other sites take get_openai_client() and call
\* client.beta.chat.completions.parse / client.chat.completions.create
\* themselves
UsesCallOpenaiStructured(site) == site \in {"use_case_extractor", "policy_extractor"}

\* llm_client.py line 39
stop_after_attempt == 6

\* what one request to the API ends in
AttemptOutcomes ==
    {"ok", "RateLimitError", "AuthenticationError", "APITimeoutError", "malformed"}

\* llm_client.py line 40: retry_if_exception_type(RateLimitError)
retry_if_exception_type(outcome) == outcome = "RateLimitError"

InitRetry ==
    /\ pc = "llm_call"
    /\ case = "support_bot"
    /\ min_test_cases = 1
    /\ pairwise_combinations = <<>>
    /\ variations = <<>>
    /\ formats = None
    /\ fi = 0
    /\ idx = 0
    /\ test_cases = <<>>
    /\ dataset_examples = <<>>
    /\ tool_calls = <<>>
    /\ ti = 0
    /\ policy_doc = NoPolicyDoc
    /\ env = IdleEnv
    /\ call \in [site : CallSites]
    /\ frameworks_used = {}
    /\ result = None
    /\ warnings = <<>>
    /\ history = <<>>

\* one request (llm_client.py lines 84-89, single_turn_qa.py lines 117-119,
\* source_classifier.py lines 112-120, fallback.py lines 86-95); idx counts
\* the requests made. Under @retry (lines 37-41) a RateLimitError before
\* the last attempt leads to the wait, the one of the last attempt is
\* raised as tenacity's RetryError; without the decorator every exception
\* leaves the call at once.
Attempt ==
    /\ pc = "llm_call"
    /\ \E outcome \in AttemptOutcomes :
         /\ idx' = idx + 1
         /\ history' = Append(history, <<"llm", call.site, idx + 1, outcome>>)
         /\ IF UsesCallOpenaiStructured(call.site) /\ retry_if_exception_type(outcome)
            THEN IF idx + 1 < stop_after_attempt
                 THEN pc' = "llm_wait" /\ result' = result
                 ELSE pc' = "llm_done" /\ result' = "RetryError"
            ELSE pc' = "llm_done" /\ result' = outcome
    /\ UNCHANGED <<routerVars, formats, fi, test_cases, dataset_examples,
                   tool_calls, ti, policy_doc, env, call, frameworks_used, warnings>>

\* llm_client.py line 38: wait_random_exponential, then the next attempt
Backoff ==
    /\ pc = "llm_wait"
    /\ pc' = "llm_call"
    /\ UNCHANGED <<routerVars, formats, fi, idx, test_cases, dataset_examples,
                   tool_calls, ti, policy_doc, env, call, frameworks_used, result,
                   warnings, history>>

NextRetry == Attempt \/ Backoff

SpecRetry == InitRetry /\ [][NextRetry]_vars

(***************************************************************************)
(* generation/fallback.py: generate_with_openai_fallback called on its own *)
(* with parsed replies whose entries leave keys out and whose present keys *)
(* hold valid values.                                                      *)
(***************************************************************************)
\* entries of data["test_cases"]: each key missing or valid
TcOmitting ==
    [id : {Absent, << <<"tc_", "llm", "", 1>> >>},
     parameter_variation_axes : {Absent, << <<"tone", "length", "topic">> >>},
     generator : {Absent}]

\* entries of data["dataset_examples"]: "input" or its "messages" missing
\* (line 128 then reads []) or one user message; the other keys missing or
\* valid
ExOmitting ==
    [messages : {<<>>, <<"user">>},
     test_case_id : {Absent, << <<"tc_", "llm", "", 1>> >>},
     evaluation_criteria :
        {Absent, << <<"relevance", "tone", "policy_compliance">> >>},
     policy_ids : {Absent, <<PolicyIds>>}]

OmittingReplies ==
    [kind : {"data"},
     test_cases : ListsEndingWith(TcOmitting, TcPlain, MaxFallbackItems),
     dataset_examples : ListsEndingWith(ExOmitting, ExPlain, MaxFallbackItems)]

InitFallback ==
    /\ pc = "fallback_call"
    /\ case = "support_bot"
    /\ min_test_cases = 1
    /\ pairwise_combinations = <<>>
    /\ variations = <<>>
    /\ formats \in {<<"single_turn_qa">>, <<"single_utterance_correction">>}
    /\ fi = 0
    /\ idx = 0
    /\ test_cases = <<>>
    /\ dataset_examples = <<>>
    /\ tool_calls = <<>>
    /\ ti = 0
    /\ policy_doc = NoPolicyDoc
    /\ env = IdleEnv
    /\ call \in OmittingReplies
    /\ frameworks_used = {}
    /\ result = None
    /\ warnings = <<>>
    /\ history = <<>>

\* generate_with_openai_fallback (fallback.py lines 60-179) on the parsed
\* reply
GenerateWithFallback ==
    /\ pc = "fallback_call"
    /\ pc' = "fallback_done"
    /\ result' = generate_with_openai_fallback(min_test_cases, formats, call)
    /\ UNCHANGED <<routerVars, formats, fi, idx, test_cases, dataset_examples,
                   tool_calls, ti, policy_doc, env, call, frameworks_used, warnings,
                   history>>

NextFallback == GenerateWithFallback

SpecFallback == InitFallback /\ [][NextFallback]_vars

(***************************************************************************)
(* models/test_case.py and models/dataset_example.py: the constructors of  *)
(* TestCase, DatasetExample and InputData called on their own, with        *)
(* arguments of the declared types.                                        *)
(***************************************************************************)
\* longest list of axes and of criteria passed to a constructor
MaxListLen == 4

\* most messages of an InputData
MaxMessages == 2

\* a list of n strings
Strings(n) == [i \in 1..n |-> "item"]

\* ids as arguments: with the prefix of the field, with another prefix, empty
IdArguments(prefix) == {<<prefix, "001", "", 1>>, <<"id_", "001", "", 1>>, <<>>}

\* lists of policy ids: empty, prefixed, and with an item without the prefix
PolicyIdArguments == {<<>>, PolicyIds, PolicyIds \o << <<"policy_", "1">> >>}

TestCaseArguments ==
    [model : {"TestCase"},
     id : IdArguments("tc_"),
     use_case_id : {UseCaseId, <<"usecase_", "001">>},
     parameter_variation_axes : {Strings(n) : n \in 0..MaxListLen},
     policy_ids : PolicyIdArguments]

DatasetExampleArguments ==
    [model : {"DatasetExample"},
     id : {<<"ex_", "001", "", 1>>, <<"id_", "001", "", 1>>},
     use_case_id : {UseCaseId, <<"usecase_", "001">>},
     test_case_id : {<<"tc_", "001", "", 1>>, <<"id_", "001", "", 1>>},
     evaluation_criteria : {Strings(n) : n \in 0..MaxListLen},
     policy_ids : PolicyIdArguments]

\* messages by their roles; target_message_index None (absent) or an int
InputDataArguments ==
    [model : {"InputData"},
     messages : SeqsUpTo(MessageRoles, MaxMessages),
     target_message_index : {Absent} \cup {<<i>> : i \in -1..MaxMessages}]

InitModels ==
    /\ pc = "constructor_call"
    /\ case = "support_bot"
    /\ min_test_cases = 1
    /\ pairwise_combinations = <<>>
    /\ variations = <<>>
    /\ formats = None
    /\ fi = 0
    /\ idx = 0
    /\ test_cases = <<>>
    /\ dataset_examples = <<>>
    /\ tool_calls = <<>>
    /\ ti = 0
    /\ policy_doc = NoPolicyDoc
    /\ env = IdleEnv
    /\ call \in TestCaseArguments \cup DatasetExampleArguments \cup InputDataArguments
    /\ frameworks_used = {}
    /\ result = None
    /\ warnings = <<>>
    /\ history = <<>>

\* TestCase(**call) (models/test_case.py lines 40-77)
ConstructTestCase ==
    /\ pc = "constructor_call"
    /\ call.model = "TestCase"
    /\ pc' = "constructed"
    /\ result' = IF TestCaseRaises(call) THEN "ValidationError" ELSE "constructed"
    /\ UNCHANGED <<routerVars, formats, fi, idx, test_cases, dataset_examples,
                   tool_calls, ti, policy_doc, env, call, frameworks_used, warnings,
                   history>>

\* DatasetExample(**call) (models/dataset_example.py lines 81-132)
ConstructDatasetExample ==
    /\ pc = "constructor_call"
    /\ call.model = "DatasetExample"
    /\ pc' = "constructed"
    /\ result' = IF DatasetExampleRaises(call) THEN "ValidationError"
                 ELSE "constructed"
    /\ UNCHANGED <<routerVars, formats, fi, idx, test_cases, dataset_examples,
                   tool_calls, ti, policy_doc, env, call, frameworks_used, warnings,
                   history>>

\* InputData(**call) (models/dataset_example.py lines 16-44)
ConstructInputData ==
    /\ pc = "constructor_call"
    /\ call.model = "InputData"
    /\ pc' = "constructed"
    /\ result' = IF InputDataRaises(call.messages, call.target_message_index)
                 THEN "ValidationError" ELSE "constructed"
    /\ UNCHANGED <<routerVars, formats, fi, idx, test_cases, dataset_examples,
                   tool_calls, ti, policy_doc, env, call, frameworks_used, warnings,
                   history>>

NextModels == ConstructTestCase \/ ConstructDatasetExample \/ ConstructInputData

SpecModels == InitModels /\ [][NextModels]_vars

(***************************************************************************)
(* variation_router.py, lines 90-104: the padding loop taken up when few   *)
(* combinations of the axis table are still missing from the list.         *)
(***************************************************************************)
\* combinations still missing from the list where the loop is taken up
MaxLeft == 3

\* every combination random.choice can draw, in the order of the table
AllCombos(c) ==
    LET axes == VARIATION_AXES(c)
        rows == Product(axis_values(axes))
    IN [n \in 1..Len(rows) |-> ParamDict(axis_names(axes), rows[n])]

\* the list after the pairwise step and after draws that have added, in the
\* order of the table, all but k of the combinations it lacked (each such
\* list is reached by the loop of lines 98-104)
PaddedList(c, k) ==
    LET pairwise == PairwiseCombinations(c)
        NotYet(d) == ~Contains(pairwise, d)
        missing == SelectSeq(AllCombos(c), NotYet)
    IN pairwise \o SubSeq(missing, 1, Len(missing) - k)

InitPadding ==
    /\ pc = "gv_pad"
    /\ case \in Cases
    /\ pairwise_combinations \in {PaddedList(case, k) : k \in 0..MaxLeft}
    /\ min_test_cases \in
          (Len(pairwise_combinations) + 1)..(Len(AllCombos(case)) + 1)
    /\ variations = <<>>
    /\ OrchIdle

NextPadding == GV_Pad \/ GV_Return

SpecPadding == InitPadding /\ [][NextPadding]_vars

\* random.choice is fair: a draw that the loop can use (a combination not
\* yet in the list) comes eventually; the function returns once the loop
\* condition is false
SpecPaddingFair == SpecPadding /\ WF_vars(GV_Pad) /\ WF_vars(GV_Return)

(***************************************************************************)
(* Properties of orchestrate_generation (checked under Spec).              *)
(***************************************************************************)
Last(seq) == seq[Len(seq)]

Finished == pc \in {"done", "raised"}

EventsOf(op) == {k \in 1..Len(history) : history[k][1] = op}

\* the call has raised, and what raised is the last-resort generator
RaisedByFallback ==
    /\ pc = "raised"
    /\ history # <<>>
    /\ Last(history)[1] = "fallback"
    /\ Last(history)[4] = "raised"

\* C1: when every generate_example call has failed and every external
\* engine has failed, orchestrate_generation either returns at least
\* min_test_cases test cases, every one of them built by the last-resort
\* generator, or raises; and it raises only when the last-resort generator
\* raised.
C1_ForwardProgress ==
    ( /\ Finished
      /\ \A k \in EventsOf("generate_example") : history[k][4] = "raised"
      /\ \A k \in EventsOf("backend") : history[k][4] = "raised" )
    => /\ pc = "done" =>
            /\ Len(test_cases) >= min_test_cases
            /\ \A i \in 1..Len(test_cases) : test_cases[i].tier = "fallback"
       /\ pc = "raised" => RaisedByFallback

\* tier of an external call: 1 adapter pass, 2 supplementary pass,
\* 3 last-resort generator
TierOf(e) ==
    CASE e[1] = "generate_example" -> 1
      [] e[1] \in {"routing", "backend"} -> 2
      [] OTHER -> 3

AdapterPassCount ==
    Cardinality({i \in 1..Len(test_cases) : test_cases[i].tier = "adapter"})

\* C2: the tiers are entered in the order adapter pass, supplementary pass,
\* last-resort generator and none is re-entered after a later one; the
\* routing call and the engines are called only after the adapter pass
\* ended with fewer than min_test_cases test cases; the last-resort
\* generator is called only while fewer than min_test_cases test cases are
\* held, or after the adapter pass raised as a whole.
C2_TierOrder ==
    [][\A k \in (Len(history) + 1)..Len(history') :
          LET e == history'[k]
          IN /\ \A j \in 1..Len(history) : TierOf(history[j]) <= TierOf(e)
             /\ TierOf(e) = 2 =>
                    /\ fi > Len(formats)
                    /\ AdapterPassCount < min_test_cases
             /\ TierOf(e) = 3 =>
                    \/ Len(test_cases) < min_test_cases
                    \/ pc = "fallback_only"]_vars

\* a finished run that went through the supplementary pass (routing, an
\* engine that returned rows) and then the last-resort generator
C2_Witness ==
    /\ pc = "done"
    /\ \E k \in EventsOf("backend") : history[k][4] = "ok" /\ history[k][3] > 0
    /\ EventsOf("routing") # {}
    /\ EventsOf("fallback") # {}

\* C3: the TestCase minted for a (format, variation) pair carries the
\* dominant-axis list and the axis values of that variation as
\* generate_variations returned it, for every requested format.
C3_TestCaseCarriesVariation ==
    \A k \in 1..Len(test_cases) :
        test_cases[k].tier = "adapter" =>
            LET combo == pairwise_combinations[test_cases[k].id[4]]
            IN /\ test_cases[k].parameter_variation_axes =
                      _select_variation_axes(combo, case)
               /\ test_cases[k].parameters = combo

\* the pairs the adapter pass has to dispatch: for every format with an
\* adapter, in the order of formats, every variation in order
RECURSIVE ExpectedCalls(_, _)
ExpectedCalls(fmts, n) ==
    IF fmts = <<>> THEN <<>>
    ELSE (IF GetAdapterRaises(Head(fmts)) THEN <<>>
          ELSE [i \in 1..n |-> <<Head(fmts), i>>])
         \o ExpectedCalls(Tail(fmts), n)

IsGenerateExample(e) == e[1] = "generate_example"

DispatchedCalls ==
    LET calls == SelectSeq(history, IsGenerateExample)
    IN [k \in 1..Len(calls) |-> <<calls[k][2], calls[k][3]>>]

AdapterPassEnded == pc \in {"routing", "tool_calls", "final_check", "done", "raised"}

\* C4: whichever generate_example calls raise and whichever format names
\* have no adapter, the adapter pass is not aborted: every pair of a format
\* with an adapter and a variation is dispatched, in order; a call in which
\* some example was generated does not raise; and every example generated
\* successfully is in the returned examples.
C4_AdapterPassContinues ==
    AdapterPassEnded =>
        /\ DispatchedCalls = ExpectedCalls(formats, Len(variations))
        /\ \A k \in EventsOf("generate_example") :
              history[k][4] = "ok" =>
                 /\ pc # "raised"
                 /\ pc = "done" =>
                      \E i \in 1..Len(dataset_examples) :
                          /\ dataset_examples[i].tier = "adapter"
                          /\ dataset_examples[i].test_case_id =
                                 AdapterTcId(history[k][2], history[k][3])

\* a run that returned after a format without adapter was skipped, one
\* generate_example call raised and a later one succeeded
C4_Witness ==
    /\ pc = "done"
    /\ \E i \in 1..Len(formats) : GetAdapterRaises(formats[i])
    /\ \E j, k \in EventsOf("generate_example") :
          j < k /\ history[j][4] = "raised" /\ history[k][4] = "ok"

\* rows the engine returned over its successful calls
RECURSIVE RowsReturned(_, _)
RowsReturned(h, engine) ==
    IF h = <<>> THEN 0
    ELSE (IF Head(h)[1] = "backend" /\ Head(h)[2] = engine /\ Head(h)[4] = "ok"
          THEN Head(h)[3] ELSE 0) + RowsReturned(Tail(h), engine)

RowsAdded(engine) ==
    Cardinality({i \in 1..Len(test_cases) :
                    test_cases[i].tier = "backend" /\ test_cases[i].generator = engine})

SupplementEnded ==
    /\ pc \in {"final_check", "done", "raised"}
    /\ EventsOf("routing") # {}

\* C5: the supplementary pass never lets an exception leave
\* orchestrate_generation; once the policy document is prepared every
\* selected tool call is processed, a failing one being skipped; and the
\* rows of every engine that succeeded are in the accumulated lists.
C5_SupplementNeverRaises ==
    /\ pc = "raised" => RaisedByFallback
    /\ (SupplementEnded /\ policy_doc.file = "deleted") => ti = Len(tool_calls) + 1
    /\ EventsOf("fallback") = {} =>
          \A engine \in {"deepeval", "ragas"} :
              RowsAdded(engine) = RowsReturned(history, engine)

FallbackItemsValid ==
    /\ \A i \in 1..Len(test_cases) :
          test_cases[i].tier = "fallback" => ~TestCaseRaises(test_cases[i])
    /\ \A i \in 1..Len(dataset_examples) :
          dataset_examples[i].tier = "fallback" =>
             /\ StartsWith(dataset_examples[i].id, "ex_")
             /\ StartsWith(dataset_examples[i].test_case_id, "tc_")
             /\ ~InputDataRaises(dataset_examples[i].input.messages,
                                 dataset_examples[i].input.target_message_index)

\* C6: a call of the last-resort generator either returns lists whose
\* items all satisfy the schema, or raises; when it raises,
\* orchestrate_generation raises too, returns nothing and makes no further
\* call.
C6_FallbackTerminal ==
    /\ \A k \in EventsOf("fallback") :
          /\ k = Len(history)
          /\ Finished
          /\ (history[k][4] = "raised") <=> (pc = "raised")
    /\ pc = "done" => FallbackItemsValid
    /\ pc = "raised" => ~ENABLED Next

\* the last-resort generator raised and the call ended with its error
C6_Witness == RaisedByFallback

\* the last-resort generator returned test cases and examples
C6_WitnessReturned ==
    /\ pc = "done"
    /\ \E i \in 1..Len(test_cases) : test_cases[i].tier = "fallback"
    /\ \E i \in 1..Len(dataset_examples) : dataset_examples[i].tier = "fallback"

HasPrefix(id, prefix) == id # <<>> /\ Head(id) = prefix

WellFormedTestCase(tc) ==
    /\ HasPrefix(tc.id, "tc_")
    /\ HasPrefix(tc.use_case_id, "uc_")
    /\ Len(tc.parameter_variation_axes) \in {2, 3}
    /\ \A i \in 1..Len(tc.policy_ids) : HasPrefix(tc.policy_ids[i], "pol_")

WellFormedExample(ex) ==
    /\ HasPrefix(ex.id, "ex_")
    /\ HasPrefix(ex.use_case_id, "uc_")
    /\ HasPrefix(ex.test_case_id, "tc_")
    /\ Len(ex.evaluation_criteria) >= 3
    /\ Len(ex.policy_ids) >= 1
    /\ \A i \in 1..Len(ex.policy_ids) : HasPrefix(ex.policy_ids[i], "pol_")

\* C13: in every state of a run, the result included, every TestCase and
\* every DatasetExample of the accumulated lists has its id prefixes, 2 or 3
\* variation axes, at least 3 criteria and at least 1 policy id: a failure
\* on any path leaves no object or a valid one in the lists.
C13_ListsHoldValidObjects ==
    /\ \A i \in 1..Len(test_cases) : WellFormedTestCase(test_cases[i])
    /\ \A i \in 1..Len(dataset_examples) : WellFormedExample(dataset_examples[i])

\* a run returned after DatasetExample(...) raised for one variation and
\* was built for another
C13_Witness ==
    /\ pc = "done"
    /\ \E k \in 1..Len(history) : history[k][4] = "ValidationError"
    /\ Len(dataset_examples) >= 1
    /\ Len(test_cases) > Len(dataset_examples)

\* the k-th external call ended with a validation error of the model layer:
\* the outcome of a generate_example call, or the cause of the exception
\* of the last-resort generator
ValidationErrorAt(k) ==
    \/ history[k][4] = "ValidationError"
    \/ history[k][1] = "fallback" /\ history[k][2] = "ValidationError"

\* C14: a validation error raised while a TestCase or DatasetExample is
\* built is not caught or replaced: the call in which it was raised is the
\* last of the run, the run raised, and what left is the validation error.
C14_ValidationErrorPropagates ==
    \A k \in 1..Len(history) :
        ValidationErrorAt(k) =>
            /\ k = Len(history)
            /\ pc = "raised"
            /\ history[k][4] = "ValidationError"

\* C15: for every native record, one on which every field access fails
\* included, every use_case_id with the uc_ prefix, test_case_id with the
\* tc_ prefix and policy_ids that is None, the policies' ids or the empty
\* list, each of the six adapter functions returns, and what it returns
\* is a schema-valid TestCase or DatasetExample.
C15_AdaptersReturnValidObjects ==
    pc = "adapted" =>
        /\ ~result.raised
        /\ result.kind = "test_case" => WellFormedTestCase(result.value)
        /\ result.kind = "example" => WellFormedExample(result.value)

\* the placeholder example of a call with the empty list of policy ids
C15_Witness ==
    /\ pc = "adapted"
    /\ call.policy_ids = << <<>> >>
    /\ result.kind = "example"
    /\ result.value.adaptation_error
    /\ call.record.access = "ok"

\* the names under which the generation path of a tier records itself:
\* the engines are those whose call returned in this run
GeneratorNames(tier) ==
    CASE tier = "adapter" -> {"format_adapter"}
      [] tier = "backend" ->
            {history[k][2] : k \in {j \in EventsOf("backend") : history[j][4] = "ok"}}
      [] OTHER -> {"openai_fallback"}

\* C17: every TestCase of the result has metadata["generator"] naming the
\* path that built it: "format_adapter" for the adapter pass, the engine's
\* name for a backend row, "openai_fallback" for the last-resort generator,
\* whatever metadata the external response carries.
C17_GeneratorNamesThePath ==
    pc = "done" =>
        \A i \in 1..Len(test_cases) :
            test_cases[i].generator \in GeneratorNames(test_cases[i].tier)

\* the external engines that were called in this run
InvokedEngines == {history[k][2] : k \in EventsOf("backend")}

\* C16: the set of names reported for a run (frameworks_used) contains the
\* name of an external engine exactly when that engine was invoked while
\* the use case was generated.
C16_FrameworksUsedAreInvoked ==
    pc = "collected" =>
        \A engine \in Engines : engine \in frameworks_used <=> engine \in InvokedEngines

\* C18: whenever enforce_coverage returns, the lists it returns are the
\* lists it was given, element for element and in the same order; what it
\* found wrong with them is in the warnings and nowhere else.
C18_ReturnsInputUnchanged ==
    pc = "coverage_returned" =>
        /\ result.raised = None
        /\ result.test_cases = test_cases
        /\ result.examples = dataset_examples
        /\ result.warnings = warnings

\* the call returned a batch of different test cases, one of them with a
\* single axis, together with a warning
C18_Witness ==
    /\ pc = "coverage_returned"
    /\ Len(test_cases) >= 2
    /\ test_cases[1] # test_cases[2]
    /\ \E i \in 1..Len(test_cases) : Len(test_cases[i].parameter_variation_axes) = 1
    /\ Len(dataset_examples) = 1
    /\ warnings # <<>>

\* the five soft conditions of a batch
SoftConditionsHold ==
    /\ \A i \in 1..Len(test_cases) :
          Len(test_cases[i].parameter_variation_axes) \in {2, 3}
    /\ \A i \in 1..Len(dataset_examples) :
          /\ Len(dataset_examples[i].evaluation_criteria) >= min_criteria
          /\ Len(dataset_examples[i].policy_ids) >= min_policy_ids
    /\ \A i \in 1..Len(test_cases) :
          \E j \in 1..Len(dataset_examples) :
             dataset_examples[j].test_case_id = test_cases[i].id
    /\ \A j \in 1..Len(dataset_examples) :
          \E i \in 1..Len(test_cases) :
             test_cases[i].id = dataset_examples[j].test_case_id

\* C19: when enforce_coverage returns, its warnings list is empty exactly
\* when every test case has 2 or 3 axes, every example has at least
\* min_criteria criteria and min_policy_ids policy ids, every test case id
\* is referenced by an example and every example's test_case_id is the id
\* of a test case of the batch.
C19_NoWarningsIffSoftConditions ==
    pc = "coverage_returned" => ((result.warnings = <<>>) <=> SoftConditionsHold)

\* the call returned without warnings for a test case and its example
C19_Witness ==
    /\ pc = "coverage_returned"
    /\ Len(test_cases) >= 1
    /\ Len(dataset_examples) >= 1
    /\ result.warnings = <<>>

\* the shape rules of a format, read off the roles of the messages and the
\* target index of an input
ShapeRulesHold(format_name, input) ==
    LET n == Len(input.messages)
    IN CASE format_name = "single_turn_qa" ->
               /\ n = 1
               /\ input.messages[1] = "user"
               /\ input.target_message_index = <<>>
         [] format_name = "single_utterance_correction" ->
               /\ n = 1
               /\ input.messages[1] = "operator"
               /\ input.target_message_index = <<0>>
         [] OTHER ->
               /\ n >= 2
               /\ input.messages[n] = "operator"
               /\ input.target_message_index = <<n - 1>>

\* the reply of the call could be shaped into an example that keeps the
\* rules of the format
ReplyMeetsRules(format_name, reply) ==
    /\ reply.kind = "parsed"
    /\ format_name = "dialog_last_turn_correction" =>
          /\ Len(reply.dialog_messages) >= 2
          /\ reply.dialog_messages[Len(reply.dialog_messages)] = "operator"

\* C20: every example that generate_example returns keeps the shape rules
\* of its format (single_turn_qa: one user message, no target index;
\* single_utterance_correction: one operator message, target index 0;
\* dialog_last_turn_correction: at least 2 messages, the last by the
\* operator, target index len(messages) - 1), so validate_format returns
\* no error for it; for a reply that cannot meet the rules the call raises.
C20_ReturnedExamplesKeepShape ==
    /\ pc = "format_returned" =>
          /\ ShapeRulesHold(call.format, result.example.input)
          /\ result.example.format = call.format
          /\ result.validation_errors = <<>>
    /\ (pc \in {"format_returned", "format_raised"}
          /\ ~ReplyMeetsRules(call.format, call.reply)) => pc = "format_raised"

\* a dialog of three messages was returned
C20_Witness ==
    /\ pc = "format_returned"
    /\ call.format = "dialog_last_turn_correction"
    /\ Len(result.example.input.messages) = 3
    /\ result.validation_errors = <<>>

\* the call raised for a dialog that ends with a user message
C20_WitnessRaised ==
    /\ pc = "format_raised"
    /\ call.format = "dialog_last_turn_correction"
    /\ call.reply.kind = "parsed"
    /\ Len(call.reply.dialog_messages) = 2
    /\ call.reply.dialog_messages[2] = "user"

(***************************************************************************)
(* Properties of classify_source_type (checked under SpecClassifier).      *)
(***************************************************************************)
\* C21: classify_source_type returns one of tickets, faq_paraphrase and
\* corner on every call: corner, without calling the external classifier,
\* when parameters["adversarial"] is profanity, injection or garbage;
\* otherwise faq_paraphrase, again without a call, when the description has
\* an FAQ keyword; only otherwise the external classifier is called, once,
\* and a failed call gives tickets.
C21_SourceIsClassifiedWithoutRaising ==
    pc = "classified" =>
        LET adversarial == IF "adversarial" \in DOMAIN call.parameters
                           THEN call.parameters["adversarial"] ELSE "absent"
            corner == adversarial \in {"profanity", "injection", "garbage"}
        IN /\ result \in {"tickets", "faq_paraphrase", "corner"}
           /\ corner => result = "corner" /\ history = <<>>
           /\ ~corner /\ call.desc_has_faq =>
                result = "faq_paraphrase" /\ history = <<>>
           /\ ~corner /\ ~call.desc_has_faq =>
                /\ Len(history) = 1
                /\ history[1][1] = "classifier"
                /\ call.llm \in {"error", "refusal", "invalid"} => result = "tickets"
                /\ call.llm \in {"tickets", "faq_paraphrase", "corner"} =>
                        result = call.llm

C21_Witness ==
    /\ pc = "classified"
    /\ "adversarial" \in DOMAIN call.parameters
    /\ call.parameters["adversarial"] = "none"
    /\ ~call.desc_has_faq
    /\ call.llm = "refusal"
    /\ Len(history) = 1
    /\ result = "tickets"

\* C22: whenever orchestrate_generation ends after the creation of the
\* scratch policy document has started (after a normal supplement pass, a
\* failing backend, a failing argument parse or a failure while writing the
\* document), the temporary file is gone and its descriptor is released.
C22_ScratchDocumentIsReleased ==
    (Finished /\ policy_doc # NoPolicyDoc) =>
        policy_doc.file = "deleted" /\ policy_doc.fd = "closed"

(***************************************************************************)
(* Properties of the structured-generation calls (checked under SpecRetry).*)
(***************************************************************************)
\* C23: at every call site (use-case and policy extraction, the format
\* adapters, the source classifier, the last-resort generator) a
\* rate-limit error is retried, up to 6 attempts in all, before the caller
\* sees it, and an authentication error or a malformed output leaves the
\* call on its first occurrence.
C23_RetryAtEveryCallBoundary ==
    pc = "llm_done" =>
        /\ Len(history) <= 6
        /\ \A k \in 1..Len(history) :
             /\ history[k][4] = "RateLimitError" => (k < Len(history) \/ k = 6)
             /\ history[k][4] \in {"AuthenticationError", "malformed"} =>
                    k = Len(history) /\ result = history[k][4]

(***************************************************************************)
(* Properties of generate_with_openai_fallback (checked under              *)
(* SpecFallback).                                                          *)
(***************************************************************************)
\* C24: the last-resort generator has a default for every required field:
\* whatever keys the entries of test_cases and dataset_examples of a parsed
\* reply leave out, generate_with_openai_fallback returns, without raising,
\* one valid TestCase per test_cases entry and one valid DatasetExample per
\* dataset_examples entry.
C24_DefaultsForEveryOmittedKey ==
    pc = "fallback_done" =>
        /\ result.raised = None
        /\ Len(result.test_cases) = Len(call.test_cases)
        /\ Len(result.dataset_examples) = Len(call.dataset_examples)
        /\ \A i \in 1..Len(result.test_cases) :
                WellFormedTestCase(result.test_cases[i])
        /\ \A i \in 1..Len(result.dataset_examples) :
                WellFormedExample(result.dataset_examples[i])

(***************************************************************************)
(* Properties of the model constructors (checked under SpecModels).        *)
(***************************************************************************)
\* C25: TestCase(...) raises exactly when the id lacks tc_, the use_case_id
\* lacks uc_, there are fewer than 2 or more than 3 variation axes, or some
\* policy id lacks pol_; DatasetExample(...) raises whenever there are fewer
\* than 3 criteria, no policy id, or a policy id without pol_.
C25_ConstructorsEnforceTheLimits ==
    pc = "constructed" =>
        /\ call.model = "TestCase" =>
             (result = "ValidationError" <=>
                \/ ~HasPrefix(call.id, "tc_")
                \/ ~HasPrefix(call.use_case_id, "uc_")
                \/ Len(call.parameter_variation_axes) < 2
                \/ Len(call.parameter_variation_axes) > 3
                \/ \E i \in 1..Len(call.policy_ids) :
                        ~HasPrefix(call.policy_ids[i], "pol_"))
        /\ call.model = "DatasetExample" =>
             ((\/ Len(call.evaluation_criteria) < 3
               \/ call.policy_ids = <<>>
               \/ \E i \in 1..Len(call.policy_ids) :
                        ~HasPrefix(call.policy_ids[i], "pol_"))
              => result = "ValidationError")

C25_Witness ==
    /\ pc = "constructed"
    /\ call.model = "DatasetExample"
    /\ HasPrefix(call.id, "ex_")
    /\ HasPrefix(call.use_case_id, "uc_")
    /\ HasPrefix(call.test_case_id, "tc_")
    /\ Len(call.evaluation_criteria) = 3
    /\ call.policy_ids = <<>>
    /\ result = "ValidationError"

\* C26: InputData(...) succeeds exactly when messages is non-empty and
\* target_message_index is absent or is an index of messages whose message
\* has the role operator; otherwise it raises.
C26_InputDataAcceptsOperatorTargets ==
    (pc = "constructed" /\ call.model = "InputData") =>
        (result = "constructed" <=>
            /\ Len(call.messages) >= 1
            /\ \/ call.target_message_index = <<>>
               \/ \E i \in 0..(Len(call.messages) - 1) :
                    /\ call.target_message_index = <<i>>
                    /\ call.messages[i + 1] = "operator")

C26_Witness ==
    /\ pc = "constructed"
    /\ call.model = "InputData"
    /\ Len(call.messages) = 2
    /\ call.target_message_index = <<1>>
    /\ call.messages[2] = "operator"
    /\ result = "constructed"

(***************************************************************************)
(* Properties of the padding loop (checked under SpecPaddingFair).         *)
(***************************************************************************)
\* C27: under fair random draws the padding loop of generate_variations
\* ends for every case and every min_test_cases, also when min_test_cases
\* exceeds the number of distinct combinations of the axis table:
\* generate_variations eventually returns.
C27_PaddingTerminates == <>(pc = "gv_returned")

\* adapter-path test cases that exactly one adapter-path example refers to
PairedTestCases ==
    {i \in 1..Len(test_cases) :
        /\ test_cases[i].tier = "adapter"
        /\ Cardinality({j \in 1..Len(dataset_examples) :
                            /\ dataset_examples[j].tier = "adapter"
                            /\ dataset_examples[j].test_case_id = test_cases[i].id}) = 1}

\* C28: a (format, variation) pair whose generate_example call raised adds
\* neither a TestCase nor an example: once the adapter pass has ended there
\* are as many adapter-path TestCases as adapter-path examples, every such
\* TestCase is referred to by exactly one example, and a run in which fewer
\* than min_test_cases test cases are paired enters the supplementary or
\* the last-resort tier.
C28_FailedPairLeavesNothing ==
    AdapterPassEnded =>
        /\ AdapterPassCount =
              Cardinality({j \in 1..Len(dataset_examples) :
                              dataset_examples[j].tier = "adapter"})
        /\ \A i \in 1..Len(test_cases) :
              test_cases[i].tier = "adapter" => i \in PairedTestCases
        /\ (Finished /\ Cardinality(PairedTestCases) < min_test_cases) =>
              EventsOf("routing") \cup EventsOf("fallback") # {}

\* C29: in the test cases a run accumulates all ids are pairwise distinct:
\* no two test cases built by different formats, by different backends or
\* by the last-resort generator share an id.
C29_TestCaseIdsAreDistinct ==
    \A i, j \in 1..Len(test_cases) :
        i # j => test_cases[i].id # test_cases[j].id

\* C30: a backend invocation whose engine returned N native records adds
\* exactly N TestCases and N DatasetExamples, in the order of the records,
\* and the i-th added example refers to the i-th added TestCase.
C30_OnePairPerNativeRecord ==
    [][(/\ Len(history') = Len(history) + 1
        /\ Last(history')[1] = "backend"
        /\ Last(history')[4] = "ok")
       => LET N == Last(history')[3]
              tcs == Len(test_cases)
              exs == Len(dataset_examples)
          IN /\ Len(test_cases') = tcs + N
             /\ Len(dataset_examples') = exs + N
             /\ SubSeq(test_cases', 1, tcs) = test_cases
             /\ SubSeq(dataset_examples', 1, exs) = dataset_examples
             /\ \A i \in 1..N :
                  /\ test_cases'[tcs + i].id[4] = i
                  /\ dataset_examples'[exs + i].test_case_id =
                        test_cases'[tcs + i].id]_vars

====
